---------------------------- MODULE Spec2Model ----------------------------
(***************************************************************************)
(* A model of CoyoteMotionAlgorithm (src/device/coyote/motion_algorithm.py)*)
(* the motion-to-pulse engine of the Coyote device driver.                 *)
(*                                                                         *)
(* Number representation.  The program computes in floating point; the     *)
(* model computes in fixed point:                                          *)
(*   - a time is an integer number of milliseconds (the program: seconds); *)
(*   - a position, amplitude, volume, ratio or factor x is the integer     *)
(*     x * Scale (thousandths);                                            *)
(*   - a velocity is in thousandths of a position unit per second, an      *)
(*     acceleration in thousandths per second squared;                     *)
(*   - a frequency is in thousandths of a hertz (mHz);                     *)
(*   - fade_level is the integer fade_level * FadeDen, FadeDen the least   *)
(*     common multiple of the fade durations the model configures, so that *)
(*     dt / fade_time is exact;                                            *)
(*   - a division rounds down (\div), an int() conversion truncates.       *)
(***************************************************************************)
EXTENDS Integers, Sequences, FiniteSets, TLC

(***************************************************************************)
(* Bounds of the model.                                                    *)
(***************************************************************************)
\* Queries per behaviour.
MaxCalls == 3
\* The largest fade duration configured, in units of FadeStep milliseconds.
MaxFadeSteps == 2

\* The fixed-point unit: 1.0 is Scale.
Scale == 10 * 100
\* Milliseconds per second.
MsPerS == 10 * 100

(***************************************************************************)
(* Arithmetic helpers.                                                     *)
(***************************************************************************)
Abs(x) == IF x < 0 THEN -x ELSE x
Min2(a, b) == IF a <= b THEN a ELSE b
Max2(a, b) == IF a >= b THEN a ELSE b

\* Python's int(): truncation toward zero of the quotient n / d (d > 0).
TruncDiv(n, d) == IF n >= 0 THEN n \div d ELSE -((-n) \div d)

\* device.coyote.common.clamp(value, min_value, max_value)
clamp(value, min_value, max_value) == Max2(min_value, Min2(value, max_value))

RECURSIVE Gcd(_, _)
Gcd(a, b) == IF b = 0 THEN a ELSE Gcd(b, a % b)
Lcm(a, b) == (a * b) \div Gcd(a, b)
RECURSIVE LcmUpTo(_)
LcmUpTo(n) == IF n <= 1 THEN 1 ELSE Lcm(n, LcmUpTo(n - 1))

RECURSIVE SumSeq(_)
SumSeq(s) == IF s = <<>> THEN 0 ELSE Head(s) + SumSeq(Tail(s))

\* The integer square root of n >= 0.
\* (by bisection: the largest r in lo..hi with r * r <= n)
RECURSIVE IsqrtIn(_, _, _)
IsqrtIn(n, lo, hi) ==
    IF lo >= hi THEN lo
    ELSE LET mid == (lo + hi + 1) \div 2
         IN IF mid * mid <= n THEN IsqrtIn(n, mid, hi) ELSE IsqrtIn(n, lo, mid - 1)
Isqrt(n) == IsqrtIn(n, 0, Min2(n, 40000))
\* math.sqrt on a fixed-point x in [0, Scale]: sqrt(x / Scale) * Scale.
Sqrt(x) == Isqrt(x * Scale)

\* sorted(s): the sequence s in ascending order.
sorted(s) == SortSeq(s, LAMBDA a, b : a < b)

\* np.percentile(a, q) with the default linear interpolation between order
\* statistics, for a non-empty sequence a.
Percentile(a, q) ==
    LET s    == sorted(a)
        n    == Len(s)
        idx  == q * (n - 1)
        lo   == idx \div 100
        frac == idx % 100
        hi   == Min2(lo + 1, n - 1)
    IN s[lo + 1] + ((s[hi + 1] - s[lo + 1]) * frac) \div 100

Mean(s) == SumSeq(s) \div Len(s)

\* Optional values: None, or a value wrapped in a 1-tuple.
None == <<>>
Some(v) == <<v>>

(***************************************************************************)
(* MotionProfile: _precompute_motion_data.                                 *)
(***************************************************************************)
\* np.gradient(f, x) for Len(f) >= 2: one-sided first differences at the two
\* ends, the second-order difference for unevenly spaced samples inside
\* (the central difference when the spacing is even).  The result is per
\* second: x is in milliseconds.  The two spacings hs, hd are taken in units
\* of their common divisor g, which leaves the quotient unchanged.
Gradient(f, x) ==
    LET n == Len(f)
    IN [i \in 1..n |->
          IF i = 1 THEN ((f[2] - f[1]) * MsPerS) \div (x[2] - x[1])
          ELSE IF i = n THEN ((f[n] - f[n - 1]) * MsPerS) \div (x[n] - x[n - 1])
          ELSE LET g  == Gcd(x[i] - x[i - 1], x[i + 1] - x[i])
                   hs == (x[i] - x[i - 1]) \div g
                   hd == (x[i + 1] - x[i]) \div g
               IN ((hs * hs * f[i + 1] + (hd * hd - hs * hs) * f[i] - hd * hd * f[i - 1])
                      * MsPerS) \div (hs * hd * (hd + hs) * g)]

\* Zip losing the first sample.
ZipTail(times, values) == [i \in 1..(Len(times) - 1) |-> <<times[i + 1], values[i + 1]>>]

\* list(zip(times, values))
Zip(times, values) == [i \in 1..Len(times) |-> <<times[i], values[i]>>]
Firsts(data) == [i \in 1..Len(data) |-> data[i][1]]
Seconds(data) == [i \in 1..Len(data) |-> data[i][2]]
AbsSeq(s) == [i \in 1..Len(s) |-> Abs(s[i])]

\* The profile the engine falls back to: position (0.0, 0.5), zero velocity
\* and acceleration.
DefaultPositionData == << <<0, Scale \div 2>> >>
\* A fallback profile with a velocity of 1.0.
DefaultVelocityDataMoving == << <<0, Scale>> >>
\* The fallback velocity (0.0, 0.0).
DefaultVelocityData == << <<0, 0>> >>
DefaultAccelerationData == << <<0, 0>> >>

\* The defaults __init__ gives the calibration constants.
InitMaxSpeed == 5 * Scale
InitMaxMagnitude == 80 * Scale
InitMaxStrokeRate == 2 * Scale
\* The floors of the calibration constants.
MinMaxSpeed == Scale \div 2
MinMaxMagnitude == 5 * Scale
MinMaxStrokeRate == Scale
\* The movement / direction threshold, 0.01.
MovementThreshold == Scale \div 100

\* VelocitiesInWindow leaving out the samples on the window's bounds.
VelocitiesInWindowExclusive(velocity_data, window_start, window_end) ==
    LET sel == SelectSeq(velocity_data,
                         LAMBDA e : window_start < e[1] /\ e[1] < window_end)
    IN [i \in 1..Len(sel) |-> Abs(sel[i][2])]

\* abs(v) for (t, v) in velocity_data if window_start <= t <= window_end
VelocitiesInWindow(velocity_data, window_start, window_end) ==
    LET sel == SelectSeq(velocity_data,
                         LAMBDA e : window_start <= e[1] /\ e[1] <= window_end)
    IN [i \in 1..Len(sel) |-> Abs(sel[i][2])]

\* CalibrationWindow truncated to whole seconds.
CalibrationWindowWholeSeconds(position_data, timeframe) ==
    LET times == Firsts(position_data)
        time_span == IF Len(times) > 1 THEN times[Len(times)] - times[1] ELSE MsPerS
    IN IF time_span > 0 THEN (Min2(timeframe, time_span \div 4) \div MsPerS) * MsPerS
       ELSE 5 * MsPerS

\* The calibration window: min(timeframe, time_span / 4), 5.0 s for an empty span.
CalibrationWindow(position_data, timeframe) ==
    LET times == Firsts(position_data)
        time_span == IF Len(times) > 1 THEN times[Len(times)] - times[1] ELSE MsPerS
    IN IF time_span > 0 THEN Min2(timeframe, time_span \div 4) ELSE 5 * MsPerS

\* The while loop of _recalibrate_velocity_range ends iff its step is positive
\* (or the first center is already past the last sample time).
RecalibrationTerminates(position_data, velocity_data, timeframe) ==
    \/ Len(velocity_data) < 2
    \/ CalibrationWindow(position_data, timeframe) \div 2 > 0
    \/ position_data[1][1] > position_data[Len(position_data)][1]

\* The window averages the scan collects, in scan order.
RECURSIVE WindowAverages(_, _, _, _, _)
WindowAverages(velocity_data, current_time, last_time, half, step_size) ==
    IF current_time > last_time THEN <<>>
    ELSE LET in_window == VelocitiesInWindow(velocity_data, current_time - half,
                                             current_time + half)
             rest == WindowAverages(velocity_data, current_time + step_size,
                                    last_time, half, step_size)
         IN IF in_window # <<>> THEN <<Mean(in_window)>> \o rest ELSE rest

\* MaxSpeedForWindow without the floor.
MaxSpeedForWindowNoFloor(position_data, velocity_data, calibration_window) ==
    LET times == Firsts(position_data)
        window_averages == WindowAverages(velocity_data, times[1], times[Len(times)],
                                          calibration_window \div 2, calibration_window \div 2)
    IN IF window_averages # <<>> THEN Percentile(window_averages, 95) ELSE MinMaxSpeed

\* The 95th percentile of the window averages of a scan with the given
\* window, floored at 0.5.
MaxSpeedForWindow(position_data, velocity_data, calibration_window) ==
    LET times == Firsts(position_data)
        step_size == calibration_window \div 2
        window_averages == WindowAverages(velocity_data, times[1], times[Len(times)],
                                          calibration_window \div 2, step_size)
    IN IF window_averages # <<>>
       THEN Max2(Percentile(window_averages, 95), MinMaxSpeed)
       ELSE MinMaxSpeed

\* _recalibrate_velocity_range: the new calibrated_max_speed (for a scan that
\* terminates).
RecalibratedMaxSpeed(position_data, velocity_data, timeframe) ==
    IF Len(velocity_data) < 2 THEN MinMaxSpeed
    ELSE MaxSpeedForWindow(position_data, velocity_data,
                           CalibrationWindow(position_data, timeframe))

\* The sign classification of the stroke counters.
VelocitySign(vel) ==
    IF vel > MovementThreshold THEN 1 ELSE IF vel < -MovementThreshold THEN -1 ELSE 0

\* The direction changes _precompute_amplitude_range counts over velocities,
\* starting from last_sign.
RECURSIVE DirectionChanges(_, _)
DirectionChanges(velocities, last_sign) ==
    IF velocities = <<>> THEN 0
    ELSE LET current_sign == VelocitySign(Head(velocities))
             flip == IF current_sign # 0 /\ last_sign # 0 /\ current_sign # last_sign
                     THEN 1 ELSE 0
         IN flip + DirectionChanges(Tail(velocities),
                                    IF current_sign # 0 THEN current_sign ELSE last_sign)

\* calibrated_max_stroke_rate as _precompute_amplitude_range sets it.
CalibratedMaxStrokeRate(position_data, velocities) ==
    LET times == Firsts(position_data)
        time_span == IF Len(times) > 1 THEN times[Len(times)] - times[1] ELSE MsPerS
        direction_changes == DirectionChanges(velocities, 0)
        avg_stroke_rate == IF time_span > 0
                           THEN (direction_changes * Scale * MsPerS) \div time_span
                           ELSE Scale
    IN Max2((avg_stroke_rate * 3) \div 2, MinMaxStrokeRate)

\* Whether _precompute_motion_data finds a usable script on the alpha axis.
HasProfile(axis) == axis.timeline /\ Len(axis.y) >= 2 /\ Len(axis.x) >= 2

\* _precompute_motion_data: the profile and the calibration of an engine
\* constructed on `axis` while the configured velocity timeframe is `timeframe`.
PrecomputeMotionData(axis, timeframe) ==
    IF ~HasProfile(axis)
    THEN [position_data |-> DefaultPositionData,
          velocity_data |-> DefaultVelocityData,
          acceleration_data |-> DefaultAccelerationData,
          calibrated_max_speed |-> InitMaxSpeed,
          calibrated_max_magnitude |-> InitMaxMagnitude,
          calibrated_max_stroke_rate |-> InitMaxStrokeRate,
          last_calibration_timeframe |-> None]
    ELSE LET velocities == Gradient(axis.y, axis.x)
             accelerations == Gradient(velocities, axis.x)
             position_data == Zip(axis.x, axis.y)
             velocity_data == Zip(axis.x, velocities)
         IN [position_data |-> position_data,
             velocity_data |-> velocity_data,
             acceleration_data |-> Zip(axis.x, accelerations),
             calibrated_max_speed |->
                 RecalibratedMaxSpeed(position_data, velocity_data, timeframe),
             calibrated_max_magnitude |->
                 Max2(Percentile(AbsSeq(accelerations), 95), MinMaxMagnitude),
             calibrated_max_stroke_rate |->
                 CalibratedMaxStrokeRate(position_data, velocities),
             last_calibration_timeframe |-> Some(timeframe)]

(***************************************************************************)
(* Strings are sequences of one-character strings, so that str.upper() and *)
(* the substring test `needle in text` are computed, not assumed.          *)
(***************************************************************************)
LowerLetters == <<"a", "b", "c", "d", "e", "f", "g", "h", "i", "j", "k", "l", "m", "n", "o", "p", "q", "r", "s", "t", "u", "v", "w", "x", "y", "z">>
UpperLetters == <<"A", "B", "C", "D", "E", "F", "G", "H", "I", "J", "K", "L", "M", "N", "O", "P", "Q", "R", "S", "T", "U", "V", "W", "X", "Y", "Z">>
UpperChar(c) ==
    IF \E i \in 1..Len(LowerLetters) : LowerLetters[i] = c
    THEN UpperLetters[CHOOSE i \in 1..Len(LowerLetters) : LowerLetters[i] = c]
    ELSE c
\* str.upper()
Upper(text) == [i \in 1..Len(text) |-> UpperChar(text[i])]
\* needle in text
Contains(text, needle) ==
    \E i \in 1..(Len(text) - Len(needle) + 1) :
        SubSeq(text, i, i + Len(needle) - 1) = needle

\* The selectors the settings widget stores.
AlgoPosition == <<"P", "o", "s", "i", "t", "i", "o", "n", " ", "(", "S", "t", "a", "n", "d", "a", "r", "d", ")">>
AlgoVaried == <<"V", "a", "r", "i", "e", "d", " ", "(", "N", "o", "i", "s", "e", "-", "b", "a", "s", "e", "d", ")">>
AlgoBlend == <<"B", "l", "e", "n", "d", " ", "(", "P", "o", "s", "i", "t", "i", "o", "n", " ", "+", " ", "N", "o", "i", "s", "e", ")">>
AlgoFixed == <<"F", "i", "x", "e", "d", " ", "(", "C", "o", "n", "s", "t", "a", "n", "t", ")">>
\* Selectors other callers pass: the tests' "POSITION", a throbbing selector,
\* an empty one and an unknown one.
AlgoTestPosition == <<"P", "O", "S", "I", "T", "I", "O", "N">>
AlgoThrobbing == <<"T", "h", "r", "o", "b", "b", "i", "n", "g">>
AlgoEmpty == <<>>
AlgoUnknown == <<"S", "a", "w", "t", "o", "o", "t", "h">>
\* The words _calculate_enhanced_frequency looks for.
WordPosition == <<"P", "O", "S", "I", "T", "I", "O", "N">>
WordBlend == <<"B", "L", "E", "N", "D">>
WordThrob == <<"T", "H", "R", "O", "B">>
WordVaried == <<"V", "A", "R", "I", "E", "D">>
WordNoise == <<"N", "O", "I", "S", "E">>
WordFixed == <<"F", "I", "X", "E", "D">>

(***************************************************************************)
(* math.sin.  The argument is in milliradians, the result in thousandths:  *)
(* Bhaskara's rational approximation on [0, pi], extended by symmetry.     *)
(***************************************************************************)
PiMilli == 3142
SinHalfTurn(x) ==
    LET y == (x * (PiMilli - x)) \div 100
    IN (16 * y * Scale) \div ((5 * PiMilli * PiMilli) \div 100 - 4 * y)
Sin(angle) ==
    LET a == angle % (2 * PiMilli)
    IN IF a <= PiMilli THEN SinHalfTurn(a) ELSE -SinHalfTurn(a - PiMilli)

(***************************************************************************)
(* Time mapping and interpolation: _get_position_velocity_acceleration.    *)
(***************************************************************************)
\* timestamp_mapper.map_timestamp(time).  A mapper is absent, or maps by an
\* offset (media playing), to a constant (media paused), to None, to a
\* negative time, or raises.
MapTimestamp(mapper, time) ==
    CASE mapper.kind = "offset"   -> [raised |-> FALSE, value |-> Some(time + mapper.arg)]
      [] mapper.kind = "paused"   -> [raised |-> FALSE, value |-> Some(mapper.arg)]
      [] mapper.kind = "null"     -> [raised |-> FALSE, value |-> None]
      [] mapper.kind = "raises"   -> [raised |-> TRUE, value |-> None]
      [] OTHER                    -> [raised |-> FALSE, value |-> None]

\* VideoTime taking every result of the mapper that is not None.
VideoTimeAnySign(mapper, time) ==
    IF mapper.kind = "absent" THEN time
    ELSE LET r == MapTimestamp(mapper, time)
         IN IF ~r.raised /\ r.value # None THEN r.value[1] ELSE time

\* The media time a query at `time` uses.
VideoTime(mapper, time) ==
    IF mapper.kind = "absent" THEN time
    ELSE LET r == MapTimestamp(mapper, time)
         IN IF ~r.raised /\ r.value # None /\ r.value[1] >= 0 THEN r.value[1] ELSE time

\* np.interp(x, xp, fp) over data = zip(xp, fp), xp increasing.
RECURSIVE InterpFrom(_, _, _)
InterpFrom(x, data, i) ==
    IF i >= Len(data) THEN data[Len(data)][2]
    ELSE IF x < data[i + 1][1]
         THEN data[i][2] + ((data[i + 1][2] - data[i][2]) * (x - data[i][1]))
                               \div (data[i + 1][1] - data[i][1])
         ELSE InterpFrom(x, data, i + 1)
Interp(x, data) ==
    IF x <= data[1][1] THEN data[1][2]
    ELSE IF x >= data[Len(data)][1] THEN data[Len(data)][2]
    ELSE InterpFrom(x, data, 1)

\* normalized_pos = clamp((pos + 1.0) / 2.0, 0.0, 1.0)
NormalizedPos(pos) == clamp((pos + Scale) \div 2, 0, Scale)

(***************************************************************************)
(* AmplitudeShaper: _calculate_motion_amplitude, _apply_positional_effect. *)
(***************************************************************************)
\* The step of the fade-time spin boxes, in milliseconds.
FadeStepMs == 50
\* The fade durations the model configures.
FadeTimes == {k * FadeStepMs : k \in 0..MaxFadeSteps}
\* fade_level 1.0.
FadeDen == FadeStepMs * LcmUpTo(MaxFadeSteps)

\* is_moving = abs(velocity) > movement_threshold
IsMoving(velocity) == Abs(velocity) > MovementThreshold

\* time_delta of the fade update: 0.0 on the first call.
FadeTimeDelta(last_fade_time, current_time) ==
    IF last_fade_time = None THEN 0 ELSE current_time - last_fade_time[1]

\* FadeIn guarding only the division, not the sign of time_delta.
FadeInAnyDelta(level, time_delta, fade_in_time) ==
    IF fade_in_time > 0
    THEN Min2(FadeDen, level + (time_delta * FadeDen) \div fade_in_time)
    ELSE FadeDen

\* The fade-in branch: the new fade level while moving.
FadeIn(level, time_delta, fade_in_time) ==
    IF fade_in_time > 0 /\ time_delta > 0
    THEN Min2(FadeDen, level + (time_delta * FadeDen) \div fade_in_time)
    ELSE FadeDen

\* The fade-out branch: the new fade level while not moving.
FadeOut(level, time_delta, fade_out_time) ==
    IF fade_out_time > 0 /\ time_delta > 0
    THEN Max2(0, level - (time_delta * FadeDen) \div fade_out_time)
    ELSE 0

\* FadeUpdate with the two fade durations taken for each other.
FadeUpdateSwapped(level, last_fade_time, velocity, current_time, fade_in_time, fade_out_time) ==
    LET time_delta == FadeTimeDelta(last_fade_time, current_time)
    IN IF IsMoving(velocity)
       THEN FadeIn(level, time_delta, fade_out_time)
       ELSE FadeOut(level, time_delta, fade_in_time)

\* The fade level after the update of one amplitude query.
FadeUpdate(level, last_fade_time, velocity, current_time, fade_in_time, fade_out_time) ==
    LET time_delta == FadeTimeDelta(last_fade_time, current_time)
    IN IF IsMoving(velocity)
       THEN FadeIn(level, time_delta, fade_in_time)
       ELSE FadeOut(level, time_delta, fade_out_time)

\* MotionAmplitude with the boost at the extremes not scaled to 30%.
MotionAmplitudeFullBoost(normalized_pos, level) ==
    IF level <= 0 THEN 0
    ELSE LET base_amp == (6 * Scale) \div 10
             extreme_boost == Abs(normalized_pos - Scale \div 2) * 2
         IN clamp(((base_amp + extreme_boost) * level) \div FadeDen, 0, Scale)

\* The amplitude _calculate_motion_amplitude returns, given the updated level.
MotionAmplitude(normalized_pos, level) ==
    IF level <= 0 THEN 0
    ELSE LET base_amp == (6 * Scale) \div 10
             distance_from_center == Abs(normalized_pos - Scale \div 2) * 2
             extreme_boost == (distance_from_center * 3) \div 10
             raw_amplitude == base_amp + extreme_boost
             amplitude == (raw_amplitude * level) \div FadeDen
         IN clamp(amplitude, 0, Scale)

\* A linear crossfade in place of the square-root one.
ApplyLinearEffect(amplitude, position) ==
    << (amplitude * (Scale - position)) \div Scale, (amplitude * position) \div Scale >>

\* _apply_positional_effect: <<amplitude_a, amplitude_b>>.
ApplyPositionalEffect(amplitude, position) ==
    LET positional_strength == Scale
        effective_position == ((Scale \div 2) * (Scale - positional_strength)) \div Scale
                                 + (position * positional_strength) \div Scale
    IN << (amplitude * Sqrt(Scale - effective_position)) \div Scale,
          (amplitude * Sqrt(effective_position)) \div Scale >>

(***************************************************************************)
(* VelocityWindowAverager and FrequencyShaper.                             *)
(***************************************************************************)
\* RecalibrationNeeded that recalibrates only while no timeframe is cached.
RecalibrationNeededOnce(last_timeframe, current_timeframe) == last_timeframe = None

\* _check_recalibration_needed: whether the query recalibrates.
RecalibrationNeeded(last_timeframe, current_timeframe) ==
    last_timeframe = None \/ current_timeframe # last_timeframe[1]

\* The average _get_average_velocity_in_window returns for media time
\* video_time (after the recalibration check).
AverageVelocityInWindow(velocity_data, video_time, timeframe) ==
    LET half_window == timeframe \div 2
        in_window == VelocitiesInWindow(velocity_data, video_time - half_window,
                                        video_time + half_window)
    IN IF in_window = <<>> THEN 0 ELSE Mean(in_window)

\* PositionFrequency mapping the position downwards from max_freq.
PositionFrequencyInverted(position, min_freq, max_freq) ==
    max_freq - (position * (max_freq - min_freq)) \div Scale

\* _position_frequency
PositionFrequency(position, min_freq, max_freq) ==
    min_freq + (position * (max_freq - min_freq)) \div Scale

\* The angle 2 * pi * throbbing_freq * time of the throbbing modulation,
\* throbbing_freq = 2.0 Hz, time in milliseconds.
ThrobbingAngle(time) == (4 * PiMilli * time) \div MsPerS

ThrobbingFrequency(position, time, min_freq, max_freq, cfg) ==
    LET in_bottom_region == position < cfg.bottom_region_threshold
        in_upper_region == position > cfg.upper_region_threshold
        throbbing_modulation == (Sin(ThrobbingAngle(time)) * cfg.throbbing_intensity) \div Scale
        base_freq == PositionFrequency(position, min_freq, max_freq)
    IN IF in_bottom_region THEN (base_freq * (Scale + throbbing_modulation)) \div Scale
       ELSE IF in_upper_region
            THEN (base_freq * (Scale + throbbing_modulation \div 2)) \div Scale
       ELSE base_freq

\* noise_value = sin(time * 0.7) * 0.2 + sin(time * 1.3) * 0.1
NoiseValue(time) ==
    (Sin((7 * time) \div 10) * 2) \div 10 + (Sin((13 * time) \div 10) * 1) \div 10

VariedFrequency(position, time, min_freq, max_freq) ==
    (PositionFrequency(position, min_freq, max_freq) * (Scale + NoiseValue(time))) \div Scale

BlendFrequency(position, time, min_freq, max_freq) ==
    (PositionFrequency(position, min_freq, max_freq)
        + VariedFrequency(position, time, min_freq, max_freq)) \div 2

\* The base frequency the selector picks.
BaseFrequency(position, time, min_freq, max_freq, cfg) ==
    LET algo_str == IF cfg.frequency_algorithm # <<>>
                    THEN Upper(cfg.frequency_algorithm) ELSE WordFixed
    IN IF Contains(algo_str, WordPosition) /\ ~Contains(algo_str, WordBlend)
       THEN PositionFrequency(position, min_freq, max_freq)
       ELSE IF Contains(algo_str, WordThrob)
       THEN ThrobbingFrequency(position, time, min_freq, max_freq, cfg)
       ELSE IF Contains(algo_str, WordVaried) \/ Contains(algo_str, WordNoise)
       THEN VariedFrequency(position, time, min_freq, max_freq)
       ELSE IF Contains(algo_str, WordBlend)
       THEN BlendFrequency(position, time, min_freq, max_freq)
       ELSE (min_freq + max_freq) \div 2

\* The frequency before the final clamp: the base frequency blended with
\* the velocity-driven frequency.
ModulatedFrequency(base_freq, avg_velocity, max_speed, min_freq, max_freq, cfg) ==
    LET normalized_speed == clamp((avg_velocity * Scale) \div max_speed, 0, Scale)
        velocity_based_freq == min_freq + (normalized_speed * (max_freq - min_freq)) \div Scale
    IN (base_freq * (Scale - cfg.frequency_velocity_factor)
          + velocity_based_freq * cfg.frequency_velocity_factor) \div Scale

\* EnhancedFrequency returning the modulated frequency without the final clamp.
EnhancedFrequencyUnclamped(position, time, min_freq, max_freq, cfg, velocity_data, mapper, max_speed) ==
    ModulatedFrequency(BaseFrequency(position, time, min_freq, max_freq, cfg),
                       AverageVelocityInWindow(velocity_data, VideoTime(mapper, time),
                                               cfg.velocity_timeframe),
                       max_speed, min_freq, max_freq, cfg)

\* The value _calculate_enhanced_frequency returns, with max_speed the
\* calibration in force after the recalibration check of its window query.
EnhancedFrequency(position, time, min_freq, max_freq, cfg, velocity_data, mapper, max_speed) ==
    LET base_freq == BaseFrequency(position, time, min_freq, max_freq, cfg)
        avg_velocity == AverageVelocityInWindow(velocity_data, VideoTime(mapper, time),
                                                cfg.velocity_timeframe)
    IN clamp(ModulatedFrequency(base_freq, avg_velocity, max_speed, min_freq, max_freq, cfg),
             min_freq, max_freq)

(***************************************************************************)
(* DynamicVolumeEstimator: _calculate_dynamic_volume.                      *)
(***************************************************************************)
\* PrunedVelocityHistory dropping the entries at the cutoff time as well.
PrunedVelocityHistoryStrict(history, current_velocity, current_time, window_size) ==
    SelectSeq(Append(history, <<current_time, current_velocity>>),
              LAMBDA e : e[1] > current_time - window_size)

\* The velocity history after the append and the prune (t >= cutoff_time).
PrunedVelocityHistory(history, current_velocity, current_time, window_size) ==
    SelectSeq(Append(history, <<current_time, current_velocity>>),
              LAMBDA e : e[1] >= current_time - window_size)

\* The direction-change timestamps after the stroke detection and the prune.
PrunedDirectionChanges(change_times, last_sign, current_velocity, current_time, window_size) ==
    LET current_sign == VelocitySign(current_velocity)
        appended == IF current_sign # 0 /\ last_sign # 0 /\ current_sign # last_sign
                    THEN Append(change_times, current_time) ELSE change_times
    IN SelectSeq(appended, LAMBDA t : t >= current_time - window_size)

\* NextVelocitySign remembering neutral samples as well.
NextVelocitySignAny(last_sign, current_velocity) == VelocitySign(current_velocity)

\* last_velocity_sign after the call.
NextVelocitySign(last_sign, current_velocity) ==
    IF VelocitySign(current_velocity) # 0 THEN VelocitySign(current_velocity) ELSE last_sign

\* intensity_metric: the mix of normalized average velocity and stroke rate.
IntensityMetric(history, change_times, current_velocity, max_speed, max_stroke_rate, cfg) ==
    LET avg_velocity == IF Len(history) > 0 THEN Mean(AbsSeq(Seconds(history)))
                        ELSE Abs(current_velocity)
        stroke_count == Len(change_times)
        stroke_rate == IF cfg.dynamic_window_size > 0
                       THEN (stroke_count * Scale * MsPerS) \div cfg.dynamic_window_size
                       ELSE 0
        normalized_velocity == clamp((avg_velocity * Scale) \div max_speed, 0, Scale)
        normalized_stroke_rate == clamp((stroke_rate * Scale) \div max_stroke_rate, 0, Scale)
    IN (cfg.dynamic_mix_ratio * normalized_velocity
          + (Scale - cfg.dynamic_mix_ratio) * normalized_stroke_rate) \div Scale

\* DynamicVolume without the sensitivity blend.
DynamicVolumeFullRange(intensity_metric, cfg) ==
    cfg.base_volume + ((Scale - cfg.base_volume) * intensity_metric) \div Scale

\* dynamic_volume = 1.0 - sensitivity * (1.0 - full_range_volume)
DynamicVolume(intensity_metric, cfg) ==
    LET full_range_volume == cfg.base_volume
                               + ((Scale - cfg.base_volume) * intensity_metric) \div Scale
    IN Scale - (cfg.dynamic_sensitivity * (Scale - full_range_volume)) \div Scale

(***************************************************************************)
(* PacketAssembler: _calculate_total_volume, _generate_motion_pulses,      *)
(* generate_packet.                                                        *)
(***************************************************************************)
\* device.coyote.constants
HARDWARE_MIN_FREQ_HZ == 10
HARDWARE_MAX_FREQ_HZ == 200
MIN_PULSE_DURATION_MS == 5
MAX_PULSE_DURATION_MS == 240

\* StandardVolume over all four volume axes: api, master, external, inactivity.
StandardVolumeAllAxes(volume) ==
    (((((volume.api * volume.master) \div Scale) * volume.external) \div Scale)
        * volume.inactivity) \div Scale

\* _get_standard_volume_at_time: api * master.
StandardVolume(volume) == (volume.api * volume.master) \div Scale
\* _calculate_total_volume
TotalVolume(volume, dynamic_volume) == (StandardVolume(volume) * dynamic_volume) \div Scale

\* int(channel_amp * volume_at_time * 100)
ChannelIntensity(channel_amp, volume_at_time) ==
    TruncDiv(channel_amp * volume_at_time * 100, Scale * Scale)

\* PulseFrequency without the clamp to the hardware bounds.
PulseFrequencyUnclamped(freq) == freq \div Scale

\* The frequency of a pulse: int() of the frequency clamped to the hardware.
PulseFrequency(freq) ==
    clamp(freq, HARDWARE_MIN_FREQ_HZ * Scale, HARDWARE_MAX_FREQ_HZ * Scale) \div Scale

\* The duration of a pulse: int(clamp(1000.0 / freq, MIN, MAX)), freq clamped.
PulseDuration(freq) ==
    LET hw == clamp(freq, HARDWARE_MIN_FREQ_HZ * Scale, HARDWARE_MAX_FREQ_HZ * Scale)
    IN clamp((MsPerS * Scale * Scale) \div hw,
             MIN_PULSE_DURATION_MS * Scale, MAX_PULSE_DURATION_MS * Scale) \div Scale

\* The number of pulses of one channel of a packet (range(4)).
PulsesPerPacket == 4

\* The pulses of one channel.
ChannelPulses(freq, intensity) ==
    [i \in 1..PulsesPerPacket |->
        [frequency |-> PulseFrequency(freq),
         intensity |-> clamp(intensity, 0, 100),
         duration  |-> PulseDuration(freq)]]

\* _generate_motion_pulses: CoyotePulses(channel_a, channel_b).
GenerateMotionPulses(freq_a, freq_b, intensity_a, intensity_b) ==
    [channel_a |-> ChannelPulses(freq_a, intensity_a),
     channel_b |-> ChannelPulses(freq_b, intensity_b)]

\* sum(p.duration for p in channel) if channel else 0
PacketDuration(channel) ==
    IF channel # <<>> THEN SumSeq([i \in 1..Len(channel) |-> channel[i].duration]) ELSE 0

\* MinDurationMs taking the longer channel.
MaxDurationMs(pulses) ==
    Max2(1, Max2(PacketDuration(pulses.channel_a), PacketDuration(pulses.channel_b)))

\* min_duration_ms of generate_packet.
MinDurationMs(pulses) ==
    LET duration_a == PacketDuration(pulses.channel_a)
        duration_b == PacketDuration(pulses.channel_b)
    IN Max2(1, IF Min2(duration_a, duration_b) > 0
               THEN Min2(duration_a, duration_b)
               ELSE Max2(Max2(duration_a, duration_b), 1))

\* next_update_time, in microseconds: current_time + (min_duration_ms / 1000) * 0.65
NextUpdateTime(current_time, pulses) == current_time * 1000 + MinDurationMs(pulses) * 650

(***************************************************************************)
(* The engine: the fields of a CoyoteMotionAlgorithm, the configuration it *)
(* polls, and the record of its last call.                                 *)
(***************************************************************************)
VARIABLES
    settings,                    \* qt_ui.settings: the COYOTE_MOTION_* values
    params,                      \* motion_params, timestamp_mapper
    position_data,               \* [(time, position)]
    velocity_data,               \* [(time, velocity)]
    acceleration_data,           \* [(time, acceleration)]
    calibrated_max_speed,
    calibrated_max_magnitude,
    calibrated_max_stroke_rate,
    last_calibration_timeframe,  \* _last_calibration_timeframe, None while unset
    fade_level,                  \* _fade_level, in 1 / FadeDen
    last_fade_time,              \* _last_fade_time, None before the first query
    is_moving,                   \* _is_moving
    prev_position,               \* _prev_position, None before the first query
    prev_position_time,          \* _prev_position_time
    realtime_velocity,           \* _realtime_velocity
    dynamic_velocity_history,    \* [(timestamp, velocity)]
    last_velocity_sign,
    direction_change_times,
    current_dynamic_volume,
    next_update_time,            \* in microseconds, None before the first packet
    external_volume,             \* the values written to volume.external
    hung,                        \* a call entered a loop that never ends
    clock,                       \* the time of the latest call
    calls,                       \* the number of calls made
    run,                         \* the current run of amplitude queries of one kind
    ret                          \* the latest call: its inputs and its result

profileVars == <<position_data, velocity_data, acceleration_data>>
calVars == <<calibrated_max_speed, calibrated_max_magnitude, calibrated_max_stroke_rate,
             last_calibration_timeframe>>
fadeVars == <<fade_level, last_fade_time, is_moving>>
trackVars == <<prev_position, prev_position_time, realtime_velocity>>
dynVars == <<dynamic_velocity_history, last_velocity_sign, direction_change_times,
             current_dynamic_volume>>
outVars == <<next_update_time, external_volume>>
vars == <<settings, params, profileVars, calVars, fadeVars, trackVars, dynVars, outVars,
          hung, clock, calls, run, ret>>

(***************************************************************************)
(* Scripts (the alpha axis): timeline.x() in milliseconds, timeline.y() in *)
(* thousandths, positions in [-1, 1].                                      *)
(***************************************************************************)
\* An axis without a timeline, an empty script, a single point, a flat script.
AxisNoTimeline == [timeline |-> FALSE, x |-> <<>>, y |-> <<>>]
AxisEmpty == [timeline |-> TRUE, x |-> <<>>, y |-> <<>>]
AxisSingle == [timeline |-> TRUE, x |-> <<0>>, y |-> <<0>>]
AxisFlat == [timeline |-> TRUE, x |-> <<0, 1000, 2000>>, y |-> <<0, 0, 0>>]
\* The script of the tests: positions 0, 50, 100, 50, 0 at 0 s .. 4 s.
AxisStroke == [timeline |-> TRUE, x |-> <<0, 1000, 2000, 3000, 4000>>,
               y |-> <<-Scale, 0, Scale, 0, -Scale>>]
\* A longer script with strokes of different speeds and a pause.
AxisLong == [timeline |-> TRUE, x |-> <<0, 1000, 2000, 4000, 6000, 7000, 8000>>,
             y |-> <<-Scale, Scale, -Scale, 0, 0, Scale, -Scale \div 2>>]

\* The widget's defaults, the fade durations within the model's FadeTimes.
DefaultSettings ==
    [velocity_timeframe |-> 5 * MsPerS,
     fade_in_time |-> FadeStepMs,
     fade_out_time |-> 2 * FadeStepMs,
     frequency_algorithm |-> AlgoPosition,
     frequency_velocity_factor |-> Scale \div 2,
     bottom_region_threshold |-> (3 * Scale) \div 10,
     upper_region_threshold |-> (7 * Scale) \div 10,
     throbbing_intensity |-> (3 * Scale) \div 10,
     dynamic_volume_enabled |-> TRUE,
     dynamic_window_size |-> 2 * MsPerS,
     dynamic_sensitivity |-> Scale \div 2,
     base_volume |-> Scale \div 5,
     dynamic_mix_ratio |-> Scale \div 2]

\* The parameters of the tests: channel A 70..100 Hz, channel B 30..100 Hz,
\* volumes 1.0, no timestamp mapper.
DefaultParams ==
    [alpha |-> AxisStroke,
     channel_a |-> [minimum_frequency |-> 70 * Scale, maximum_frequency |-> 100 * Scale],
     channel_b |-> [minimum_frequency |-> 30 * Scale, maximum_frequency |-> 100 * Scale],
     volume |-> [api |-> Scale, master |-> Scale, external_has_add |-> TRUE,
                 external |-> Scale, inactivity |-> Scale],
     mapper |-> [kind |-> "absent", arg |-> 0]]

\* The state __init__ leaves, for the given parameters and settings.
Constructed(p, cfg) ==
    LET pre == PrecomputeMotionData(p.alpha, cfg.velocity_timeframe)
    IN /\ settings = cfg
       /\ params = p
       /\ position_data = pre.position_data
       /\ velocity_data = pre.velocity_data
       /\ acceleration_data = pre.acceleration_data
       /\ calibrated_max_speed = pre.calibrated_max_speed
       /\ calibrated_max_magnitude = pre.calibrated_max_magnitude
       /\ calibrated_max_stroke_rate = pre.calibrated_max_stroke_rate
       /\ last_calibration_timeframe = pre.last_calibration_timeframe
       /\ fade_level = 0
       /\ last_fade_time = None
       /\ is_moving = FALSE
       /\ prev_position = None
       /\ prev_position_time = None
       /\ realtime_velocity = 0
       /\ dynamic_velocity_history = <<>>
       /\ last_velocity_sign = 0
       /\ direction_change_times = <<>>
       /\ current_dynamic_volume = Scale
       /\ next_update_time = None
       /\ external_volume = <<>>
       /\ hung = FALSE
       /\ clock = 0
       /\ calls = 0
       /\ run = [kind |-> "none", start |-> 0, since |-> 0]
       /\ ret = [op |-> "init"]

(***************************************************************************)
(* Direct calls of the amplitude shaper, as the tests make them.           *)
(***************************************************************************)
\* The inputs of the direct calls.
AmpPositions == {0, Scale \div 2, (3 * Scale) \div 4}
AmpVelocities == {MovementThreshold, MovementThreshold + 1, -2 * Scale}
AmpTimeSteps == {-FadeStepMs \div 2, 0, FadeStepMs \div 2, FadeStepMs}
PosAmplitudes == {(k * Scale) \div 10 : k \in 0..10} \cup {2 * Scale}
PosPositions == {(k * Scale) \div 20 : k \in 0..20}

\* The run of consecutive amplitude queries, at strictly increasing times and
\* under one configuration, that all classify the input the same way.
NextRun(velocity, current_time) ==
    LET kind == IF IsMoving(velocity) THEN "moving" ELSE "still"
    IN IF run.kind = kind /\ last_fade_time # None /\ current_time > last_fade_time[1]
       THEN run
       ELSE [kind |-> kind, start |-> current_time,
             since |-> IF last_fade_time = None THEN current_time ELSE last_fade_time[1]]

\* _calculate_motion_amplitude(normalized_pos, velocity, current_time)
AmplitudeCall(normalized_pos, velocity, current_time) ==
    LET level == FadeUpdate(fade_level, last_fade_time, velocity, current_time,
                            settings.fade_in_time, settings.fade_out_time)
    IN /\ ~hung
       /\ calls < MaxCalls
       /\ current_time >= 0
       /\ fade_level' = level
       /\ last_fade_time' = Some(current_time)
       /\ is_moving' = IsMoving(velocity)
       /\ run' = NextRun(velocity, current_time)
       /\ clock' = current_time
       /\ calls' = calls + 1
       /\ ret' = [op |-> "amplitude",
                  normalized_pos |-> normalized_pos,
                  velocity |-> velocity,
                  first |-> (last_fade_time = None),
                  time_delta |-> FadeTimeDelta(last_fade_time, current_time),
                  old_level |-> fade_level,
                  fade_in_time |-> settings.fade_in_time,
                  fade_out_time |-> settings.fade_out_time,
                  value |-> MotionAmplitude(normalized_pos, level)]
       /\ UNCHANGED <<settings, params, profileVars, calVars, trackVars, dynVars, outVars, hung>>

\* _apply_positional_effect(amplitude, position)
PositionalCall(amplitude, position) ==
    /\ ~hung
    /\ ret' = [op |-> "positional", amplitude |-> amplitude, position |-> position,
               value |-> ApplyPositionalEffect(amplitude, position)]
    /\ UNCHANGED <<settings, params, profileVars, calVars, fadeVars, trackVars, dynVars,
                   outVars, hung, clock, calls, run>>

\* The user moves the fade-in / fade-out spin boxes.
SetFadeTimes(fade_in_time, fade_out_time) ==
    /\ ~hung
    /\ settings' = [settings EXCEPT !.fade_in_time = fade_in_time,
                                    !.fade_out_time = fade_out_time]
    /\ settings' # settings
    /\ run' = [kind |-> "none", start |-> 0, since |-> 0]
    /\ ret' = [op |-> "configure"]
    /\ UNCHANGED <<params, profileVars, calVars, fadeVars, trackVars, dynVars, outVars,
                   hung, clock, calls>>

InitAmp ==
    \E fi \in FadeTimes, fo \in FadeTimes :
        Constructed(DefaultParams, [DefaultSettings EXCEPT !.fade_in_time = fi,
                                                           !.fade_out_time = fo])

NextAmp ==
    \/ \E p \in AmpPositions, v \in AmpVelocities, d \in AmpTimeSteps :
           AmplitudeCall(p, v, clock + d)
    \/ \E fi \in FadeTimes, fo \in FadeTimes : SetFadeTimes(fi, fo)

SpecAmp == InitAmp /\ [][NextAmp]_vars

\* The parameters of _calculate_motion_amplitude after self; none has a default.
MotionAmplitudeParameters == <<"normalized_pos", "velocity", "current_time">>

\* _positional_intensity(time_s, volume).  The call of
\* _calculate_motion_amplitude binds its positional arguments to the
\* parameters; when their number differs, Python raises TypeError before
\* the body of the callee runs.
PositionalIntensityCall(time_s, volume) ==
    LET video_time == VideoTime(params.mapper, time_s)
        pos == Interp(video_time, position_data)
        vel == Interp(video_time, velocity_data)
        normalized_pos == NormalizedPos(pos)
        arguments == <<normalized_pos, vel>>
        bound == Len(arguments) = Len(MotionAmplitudeParameters)
        level == FadeUpdate(fade_level, last_fade_time, arguments[2], arguments[3],
                            settings.fade_in_time, settings.fade_out_time)
        amps == ApplyPositionalEffect(MotionAmplitude(arguments[1], level), normalized_pos)
    IN /\ ~hung
       /\ IF bound
          THEN /\ fade_level' = level
               /\ last_fade_time' = Some(arguments[3])
               /\ is_moving' = IsMoving(arguments[2])
               /\ ret' = [op |-> "positional_intensity", time_s |-> time_s,
                          volume |-> volume, raised |-> None,
                          value |-> <<clamp(ChannelIntensity(amps[1], volume), 0, 100),
                                      clamp(ChannelIntensity(amps[2], volume), 0, 100)>>]
          ELSE /\ UNCHANGED fadeVars
               /\ ret' = [op |-> "positional_intensity", time_s |-> time_s,
                          volume |-> volume, raised |-> Some("TypeError")]
       /\ UNCHANGED <<settings, params, profileVars, calVars, trackVars, dynVars,
                      outVars, hung, clock, calls, run>>

\* The positional split is a pure function: its calls from a fresh engine,
\* and the calls of the channel controllers' entry point.
InitPos == Constructed(DefaultParams, DefaultSettings)
NextPos ==
    \/ \E a \in PosAmplitudes, p \in PosPositions : PositionalCall(a, p)
    \/ \E t \in {0, (3 * MsPerS) \div 2, 5 * MsPerS}, v \in PosAmplitudes :
           PositionalIntensityCall(t, v)
SpecPos == InitPos /\ [][NextPos]_vars

(***************************************************************************)
(* Direct calls of the window averager and of the frequency shaper.        *)
(***************************************************************************)
\* The recalibration check every window-average query starts with: whether
\* it recalibrates, whether that scan ends, and the calibration in force
\* after it.
RecalibrationCheck ==
    LET needed == RecalibrationNeeded(last_calibration_timeframe, settings.velocity_timeframe)
        ends == RecalibrationTerminates(position_data, velocity_data,
                                        settings.velocity_timeframe)
    IN [recalibrated |-> needed,
        hangs |-> needed /\ ~ends,
        calibrated_max_speed |->
            IF needed /\ ends
            THEN RecalibratedMaxSpeed(position_data, velocity_data,
                                      settings.velocity_timeframe)
            ELSE calibrated_max_speed,
        last_calibration_timeframe |->
            IF needed THEN Some(settings.velocity_timeframe)
            ELSE last_calibration_timeframe]

\* What a window-average query records besides its answer.
WindowRecord(check) ==
    [timeframe |-> settings.velocity_timeframe,
     cached_before |-> last_calibration_timeframe,
     max_speed_before |-> calibrated_max_speed,
     recalibrated |-> check.recalibrated]

\* The channel bounds minimum_frequency.interpolate(0.0), maximum_frequency.interpolate(0.0).
ChannelParams(channel) == IF channel = "A" THEN params.channel_a ELSE params.channel_b

\* _get_average_velocity_in_window(current_time)
WindowQuery(current_time) ==
    LET check == RecalibrationCheck
    IN /\ ~hung
       /\ last_calibration_timeframe' = check.last_calibration_timeframe
       /\ calibrated_max_speed' = check.calibrated_max_speed
       /\ hung' = check.hangs
       /\ clock' = current_time
       /\ ret' = IF check.hangs THEN [op |-> "hung"]
                 ELSE [op |-> "window", time |-> current_time,
                       video_time |-> VideoTime(params.mapper, current_time),
                       window |-> WindowRecord(check),
                       value |-> AverageVelocityInWindow(velocity_data,
                                     VideoTime(params.mapper, current_time),
                                     settings.velocity_timeframe)]
       /\ UNCHANGED <<settings, params, profileVars, calibrated_max_magnitude,
                      calibrated_max_stroke_rate, fadeVars, trackVars, dynVars, outVars,
                      calls, run>>

\* _calculate_enhanced_frequency(position, time, channel)
FrequencyCall(position, time, channel) ==
    LET check == RecalibrationCheck
        ch == ChannelParams(channel)
        base_freq == BaseFrequency(position, time, ch.minimum_frequency,
                                   ch.maximum_frequency, settings)
        avg_velocity == AverageVelocityInWindow(velocity_data,
                            VideoTime(params.mapper, time), settings.velocity_timeframe)
    IN /\ ~hung
       /\ last_calibration_timeframe' = check.last_calibration_timeframe
       /\ calibrated_max_speed' = check.calibrated_max_speed
       /\ hung' = check.hangs
       /\ clock' = time
       /\ ret' = IF check.hangs THEN [op |-> "hung"]
                 ELSE [op |-> "frequency", position |-> position, time |-> time,
                       channel |-> channel,
                       min_freq |-> ch.minimum_frequency,
                       max_freq |-> ch.maximum_frequency,
                       algorithm |-> settings.frequency_algorithm,
                       velocity_factor |-> settings.frequency_velocity_factor,
                       window |-> WindowRecord(check),
                       max_speed |-> check.calibrated_max_speed,
                       modulated |-> ModulatedFrequency(base_freq, avg_velocity,
                                         check.calibrated_max_speed, ch.minimum_frequency,
                                         ch.maximum_frequency, settings),
                       value |-> EnhancedFrequency(position, time, ch.minimum_frequency,
                                     ch.maximum_frequency, settings, velocity_data,
                                     params.mapper, check.calibrated_max_speed)]
       /\ UNCHANGED <<settings, params, profileVars, calibrated_max_magnitude,
                      calibrated_max_stroke_rate, fadeVars, trackVars, dynVars, outVars,
                      calls, run>>

\* HasFunscriptData counting the single point as data.
HasFunscriptDataAny(built, positions, velocities) ==
    built /\ Len(positions) >= 1 /\ Len(velocities) >= 1

\* The value of has_funscript_data; `built` is whether the object has the
\* attributes position_data and velocity_data.
HasFunscriptData(built, positions, velocities) ==
    IF ~built THEN FALSE
    ELSE Len(positions) > 1 /\ Len(velocities) > 1

\* has_funscript_data(), on the engine or (built = FALSE) on an object whose
\* profile has not been built.
HasFunscriptDataCall(built) ==
    /\ ~hung
    /\ ret' = [op |-> "has_data", built |-> built,
               value |-> HasFunscriptData(built, position_data, velocity_data)]
    /\ UNCHANGED <<settings, params, profileVars, calVars, fadeVars, trackVars, dynVars,
                   outVars, hung, clock, calls, run>>

\* SetVelocityTimeframe recalibrating at once, in the setter.
SetVelocityTimeframeEager(timeframe) ==
    /\ ~hung
    /\ timeframe # settings.velocity_timeframe
    /\ settings' = [settings EXCEPT !.velocity_timeframe = timeframe]
    /\ calibrated_max_speed' =
           IF RecalibrationTerminates(position_data, velocity_data, timeframe)
           THEN RecalibratedMaxSpeed(position_data, velocity_data, timeframe)
           ELSE calibrated_max_speed
    /\ last_calibration_timeframe' = Some(timeframe)
    /\ ret' = [op |-> "configure"]
    /\ UNCHANGED <<params, profileVars, calibrated_max_magnitude,
                   calibrated_max_stroke_rate, fadeVars, trackVars, dynVars, outVars,
                   hung, clock, calls, run>>

\* The user moves the velocity-timeframe spin box.
SetVelocityTimeframe(timeframe) ==
    /\ ~hung
    /\ timeframe # settings.velocity_timeframe
    /\ settings' = [settings EXCEPT !.velocity_timeframe = timeframe]
    /\ ret' = [op |-> "configure"]
    /\ UNCHANGED <<params, profileVars, calVars, fadeVars, trackVars, dynVars, outVars,
                   hung, clock, calls, run>>

\* The user picks a frequency algorithm.
SetFrequencyAlgorithm(algorithm) ==
    /\ ~hung
    /\ algorithm # settings.frequency_algorithm
    /\ settings' = [settings EXCEPT !.frequency_algorithm = algorithm]
    /\ ret' = [op |-> "configure"]
    /\ UNCHANGED <<params, profileVars, calVars, fadeVars, trackVars, dynVars, outVars,
                   hung, clock, calls, run>>

\* The user moves the velocity-factor slider.
SetVelocityFactor(factor) ==
    /\ ~hung
    /\ factor # settings.frequency_velocity_factor
    /\ settings' = [settings EXCEPT !.frequency_velocity_factor = factor]
    /\ ret' = [op |-> "configure"]
    /\ UNCHANGED <<params, profileVars, calVars, fadeVars, trackVars, dynVars, outVars,
                   hung, clock, calls, run>>

\* The user toggles the dynamic-volume check box.
SetDynamicVolumeEnabled(enabled) ==
    /\ ~hung
    /\ enabled # settings.dynamic_volume_enabled
    /\ settings' = [settings EXCEPT !.dynamic_volume_enabled = enabled]
    /\ ret' = [op |-> "configure"]
    /\ UNCHANGED <<params, profileVars, calVars, fadeVars, trackVars, dynVars, outVars,
                   hung, clock, calls, run>>

\* The scripts, channel bounds, selectors and inputs of the direct calls.
Axes == {AxisNoTimeline, AxisEmpty, AxisSingle, AxisFlat, AxisStroke, AxisLong}
\* Channel bounds: the tests' (within the hardware range), and bounds beyond
\* the hardware range on A with equal bounds on B.
WideChannels ==
    [channel_a |-> [minimum_frequency |-> 5 * Scale, maximum_frequency |-> 250 * Scale],
     channel_b |-> [minimum_frequency |-> 100 * Scale, maximum_frequency |-> 100 * Scale]]
ChannelSets == {[channel_a |-> DefaultParams.channel_a, channel_b |-> DefaultParams.channel_b],
                WideChannels}
Algorithms == {AlgoPosition, AlgoVaried, AlgoBlend, AlgoFixed, AlgoTestPosition,
               AlgoThrobbing, AlgoEmpty, AlgoUnknown}
VelocityFactors == {0, Scale \div 2, Scale}
\* The timeframes configured at construction, and those set later.
InitTimeframes == {1 * MsPerS, 2 * MsPerS}
Timeframes == InitTimeframes \cup {0}
FreqPositions == {0, Scale \div 10, Scale \div 2, Scale}
FreqTimes == {0, 125, 2500}

\* The frequency shaper on the scripted profiles, under every selector and
\* velocity factor.
InitFreq ==
    \E axis \in {AxisStroke, AxisLong}, chans \in ChannelSets :
        Constructed([DefaultParams EXCEPT !.alpha = axis,
                                          !.channel_a = chans.channel_a,
                                          !.channel_b = chans.channel_b],
                    [DefaultSettings EXCEPT !.velocity_timeframe = 1 * MsPerS])

NextFreq ==
    \/ \E p \in FreqPositions, t \in FreqTimes, c \in {"A", "B"} : FrequencyCall(p, t, c)
    \/ \E a \in Algorithms : SetFrequencyAlgorithm(a)
    \/ \E f \in VelocityFactors : SetVelocityFactor(f)

SpecFreq == InitFreq /\ [][NextFreq]_vars

\* The calibration on every script, under a velocity timeframe that changes.
InitCal ==
    \E axis \in Axes, tf \in InitTimeframes :
        Constructed([DefaultParams EXCEPT !.alpha = axis],
                    [DefaultSettings EXCEPT !.velocity_timeframe = tf])

NextCal ==
    \/ \E t \in FreqTimes : WindowQuery(t)
    \/ \E tf \in Timeframes : SetVelocityTimeframe(tf)
    \/ \E built \in BOOLEAN : HasFunscriptDataCall(built)

SpecCal == InitCal /\ [][NextCal]_vars

(***************************************************************************)
(* The polling loop: generate_packet and get_pulses_at_time, under a       *)
(* configuration the user changes between queries.                         *)
(***************************************************************************)
\* RealtimeVelocity that always takes the script's precomputed velocity.
RealtimeVelocityPrecomputed(pos, vel, time) == vel

\* _realtime_velocity after the tracker's update of one query.
RealtimeVelocity(pos, vel, time) ==
    IF prev_position # None /\ prev_position_time # None
    THEN IF time - prev_position_time[1] > 1
         THEN TruncDiv((pos - prev_position[1]) * MsPerS, time - prev_position_time[1])
         ELSE realtime_velocity
    ELSE vel

\* CurrentDynamicVolume keeping the volume the previous query left.
CurrentDynamicVolumeStale(dynamic_enabled, computed) == current_dynamic_volume

\* CurrentDynamicVolume that keeps the computed volume while disabled.
CurrentDynamicVolumeAlways(dynamic_enabled, computed) == computed

\* current_dynamic_volume: the computed volume if enabled, else 1.0.
CurrentDynamicVolume(dynamic_enabled, computed) ==
    IF dynamic_enabled THEN computed ELSE Scale

\* What get_pulses_at_time(time) computes, in the order the code computes it:
\* lookup, tracker, amplitude, dynamic volume, positional split, the two
\* frequencies (the first runs the recalibration check), volume, pulses.
PulsesAtTime(time) ==
    LET video_time == VideoTime(params.mapper, time)
        pos == Interp(video_time, position_data)
        vel == Interp(video_time, velocity_data)
        normalized_pos == NormalizedPos(pos)
        velocity == RealtimeVelocity(pos, vel, time)
        level == FadeUpdate(fade_level, last_fade_time, velocity, time,
                            settings.fade_in_time, settings.fade_out_time)
        motion_amplitude == MotionAmplitude(normalized_pos, level)
        history == PrunedVelocityHistory(dynamic_velocity_history, vel, time,
                                         settings.dynamic_window_size)
        changes == PrunedDirectionChanges(direction_change_times, last_velocity_sign, vel,
                                          time, settings.dynamic_window_size)
        dynamic_volume ==
            CurrentDynamicVolume(settings.dynamic_volume_enabled,
                DynamicVolume(IntensityMetric(history, changes, vel, calibrated_max_speed,
                                              calibrated_max_stroke_rate, settings),
                              settings))
        amps == ApplyPositionalEffect(motion_amplitude, normalized_pos)
        check == RecalibrationCheck
        freq_a == EnhancedFrequency(normalized_pos, time,
                      params.channel_a.minimum_frequency, params.channel_a.maximum_frequency,
                      settings, velocity_data, params.mapper, check.calibrated_max_speed)
        freq_b == EnhancedFrequency(normalized_pos, time,
                      params.channel_b.minimum_frequency, params.channel_b.maximum_frequency,
                      settings, velocity_data, params.mapper, check.calibrated_max_speed)
        volume_at_time == TotalVolume(params.volume, dynamic_volume)
        intensity_a == ChannelIntensity(amps[1], volume_at_time)
        intensity_b == ChannelIntensity(amps[2], volume_at_time)
    IN [video_time |-> video_time,
        pos |-> pos, vel |-> vel, normalized_pos |-> normalized_pos,
        realtime_velocity |-> velocity, fade_level |-> level,
        motion_amplitude |-> motion_amplitude,
        history |-> IF settings.dynamic_volume_enabled THEN history
                    ELSE dynamic_velocity_history,
        changes |-> IF settings.dynamic_volume_enabled THEN changes
                    ELSE direction_change_times,
        sign |-> IF settings.dynamic_volume_enabled
                 THEN NextVelocitySign(last_velocity_sign, vel) ELSE last_velocity_sign,
        dynamic_volume |-> dynamic_volume,
        dynamic_max_speed |-> calibrated_max_speed,
        check |-> check,
        freq_a |-> freq_a, freq_b |-> freq_b,
        volume_at_time |-> volume_at_time,
        intensity_a |-> intensity_a, intensity_b |-> intensity_b,
        pulses |-> GenerateMotionPulses(freq_a, freq_b, intensity_a, intensity_b)]

\* The record of a query that returned a packet.
PacketRecord(time, q, scheduled) ==
    [op |-> "packet", time |-> time, scheduled |-> scheduled,
     video_time |-> q.video_time,
     normalized_pos |-> q.normalized_pos, vel |-> q.vel,
     realtime_velocity |-> q.realtime_velocity,
     motion_amplitude |-> q.motion_amplitude,
     dynamic_enabled |-> settings.dynamic_volume_enabled,
     dynamic_before |-> current_dynamic_volume,
     dynamic_volume |-> q.dynamic_volume,
     dynamic_max_speed |-> q.dynamic_max_speed,
     window |-> WindowRecord(q.check),
     max_speed |-> q.check.calibrated_max_speed,
     freq_a |-> q.freq_a, freq_b |-> q.freq_b,
     volume_at_time |-> q.volume_at_time,
     intensity_a |-> q.intensity_a, intensity_b |-> q.intensity_b,
     pulses |-> q.pulses]

\* One query of the polling loop.  A recalibration that never ends leaves the
\* engine inside the query, after the updates that precede the frequencies.
PulsesQuery(time, scheduled) ==
    LET q == PulsesAtTime(time)
    IN /\ ~hung
       /\ calls < MaxCalls
       /\ prev_position' = Some(q.pos)
       /\ prev_position_time' = Some(time)
       /\ realtime_velocity' = q.realtime_velocity
       /\ fade_level' = q.fade_level
       /\ last_fade_time' = Some(time)
       /\ is_moving' = IsMoving(q.realtime_velocity)
       /\ dynamic_velocity_history' = q.history
       /\ direction_change_times' = q.changes
       /\ last_velocity_sign' = q.sign
       /\ current_dynamic_volume' = q.dynamic_volume
       /\ external_volume' = IF params.volume.external_has_add
                             THEN Append(external_volume, q.dynamic_volume)
                             ELSE external_volume
       /\ last_calibration_timeframe' = q.check.last_calibration_timeframe
       /\ calibrated_max_speed' = q.check.calibrated_max_speed
       /\ hung' = q.check.hangs
       /\ next_update_time' = IF scheduled /\ ~q.check.hangs
                              THEN Some(NextUpdateTime(time, q.pulses))
                              ELSE next_update_time
       /\ run' = NextRun(q.realtime_velocity, time)
       /\ clock' = time
       /\ calls' = calls + 1
       /\ ret' = IF q.check.hangs THEN [op |-> "hung"] ELSE PacketRecord(time, q, scheduled)
       /\ UNCHANGED <<settings, params, profileVars, calibrated_max_magnitude,
                      calibrated_max_stroke_rate>>

\* get_pulses_at_time(time)
GetPulsesAtTime(time) == PulsesQuery(time, FALSE)

\* generate_packet(current_time)
GeneratePacket(current_time) == PulsesQuery(current_time, TRUE)

\* The engines the polling loop runs on: the engine of the tests; a longer
\* script played with a media offset on channels wider than the hardware
\* range, at a volume above 1 and without dynamic volume; no script at all,
\* media paused, no external volume axis; a mapper that raises, fades of 0.
WideParams ==
    [alpha |-> AxisLong,
     channel_a |-> WideChannels.channel_a,
     channel_b |-> WideChannels.channel_b,
     volume |-> [api |-> 2 * Scale, master |-> Scale, external_has_add |-> TRUE,
                 external |-> Scale, inactivity |-> Scale],
     mapper |-> [kind |-> "offset", arg |-> (11 * MsPerS) \div 2]]
Setups ==
    { [params |-> DefaultParams,
       settings |-> [DefaultSettings EXCEPT !.velocity_timeframe = 1 * MsPerS]],
      [params |-> WideParams,
       settings |-> [DefaultSettings EXCEPT !.velocity_timeframe = 2 * MsPerS,
                                            !.dynamic_volume_enabled = FALSE]],
      [params |-> [WideParams EXCEPT !.alpha = AxisEmpty,
                                     !.volume.external_has_add = FALSE,
                                     !.mapper = [kind |-> "paused", arg |-> 3 * MsPerS]],
       settings |-> [DefaultSettings EXCEPT !.velocity_timeframe = 1 * MsPerS]],
      [params |-> [DefaultParams EXCEPT !.mapper = [kind |-> "raises", arg |-> 0]],
       settings |-> [DefaultSettings EXCEPT !.velocity_timeframe = 1 * MsPerS,
                                            !.fade_in_time = 0,
                                            !.fade_out_time = 0]] }
\* The steps of the polling clock, and what the user selects between queries.
PollSteps == {0, (3 * MsPerS) \div 2}
PollAlgorithms == {AlgoPosition, AlgoThrobbing}

Init == \E setup \in Setups : Constructed(setup.params, setup.settings)

Next ==
    \/ \E d \in PollSteps : GeneratePacket(clock + d)
    \/ \E d \in PollSteps : GetPulsesAtTime(clock + d)
    \/ \E a \in PollAlgorithms : SetFrequencyAlgorithm(a)
    \/ \E tf \in InitTimeframes : SetVelocityTimeframe(tf)

Spec == Init /\ [][Next]_vars

\* The timestamp mapper follows the media player: what map_timestamp does
\* changes between queries (playing, paused, no media, failing).
MediaChange(mapper) ==
    /\ ~hung
    /\ params.mapper.kind # "absent"
    /\ mapper.kind # "absent"
    /\ mapper # params.mapper
    /\ params' = [params EXCEPT !.mapper = mapper]
    /\ ret' = [op |-> "configure"]
    /\ UNCHANGED <<settings, profileVars, calVars, fadeVars, trackVars, dynVars, outVars,
                   hung, clock, calls, run>>

\* No mapper; media playing ahead of and behind the clock (the latter maps
\* early times below 0); paused; a mapper that returns None; one that raises.
Mappers ==
    { [kind |-> "absent", arg |-> 0],
      [kind |-> "offset", arg |-> MsPerS \div 2],
      [kind |-> "offset", arg |-> -2 * MsPerS],
      [kind |-> "paused", arg |-> 3 * MsPerS],
      [kind |-> "null", arg |-> 0],
      [kind |-> "raises", arg |-> 0] }

\* The lookups under a mapper that follows the media player.
InitMap ==
    \E mapper \in Mappers :
        Constructed([DefaultParams EXCEPT !.mapper = mapper],
                    [DefaultSettings EXCEPT !.velocity_timeframe = 1 * MsPerS])

NextMap ==
    \/ \E d \in PollSteps : GetPulsesAtTime(clock + d)
    \/ WindowQuery(clock)
    \/ \E mapper \in Mappers : MediaChange(mapper)

SpecMap == InitMap /\ [][NextMap]_vars

\* Polling while the played position stands still: the media paused in the
\* middle of a stroke, or playing beyond the end or before the start of the
\* script, with fade-outs shorter and longer than the polling step.
InitPause ==
    \E mapper \in { [kind |-> "paused", arg |-> (3 * MsPerS) \div 2],
                    [kind |-> "offset", arg |-> 3 * MsPerS],
                    [kind |-> "offset", arg |-> -5 * MsPerS] },
       fade_out_time \in {0, 2 * FadeStepMs, 3 * MsPerS} :
        Constructed([DefaultParams EXCEPT !.mapper = mapper],
                    [DefaultSettings EXCEPT !.velocity_timeframe = 1 * MsPerS,
                                            !.fade_out_time = fade_out_time])

NextPause ==
    \/ \E d \in PollSteps : GetPulsesAtTime(clock + d)
    \/ \E mapper \in Mappers : MediaChange(mapper)

SpecPause == InitPause /\ [][NextPause]_vars

\* The polling loop under configuration values at and below zero: the
\* dynamic-volume window and both fade durations are 0 or negative from the
\* start, and the velocity timeframe moves between 1 s, 0 and -1 s.
ExtremeFactors == {0, -1}
ExtremeTimeframes == {MsPerS, 0, -MsPerS}

InitCfg ==
    \E setup \in Setups, k \in ExtremeFactors :
        Constructed(setup.params,
                    [setup.settings EXCEPT !.dynamic_window_size = k * MsPerS,
                                           !.fade_in_time = k * FadeStepMs,
                                           !.fade_out_time = k * FadeStepMs])

NextCfg ==
    \/ \E d \in PollSteps : GeneratePacket(clock + d)
    \/ \E tf \in ExtremeTimeframes : SetVelocityTimeframe(tf)

SpecCfg == InitCfg /\ [][NextCfg]_vars

\* The polling loop while the user switches dynamic volume on and off.
InitDyn == \E setup \in Setups : Constructed(setup.params, setup.settings)

NextDyn ==
    \/ \E d \in PollSteps : GeneratePacket(clock + d)
    \/ \E enabled \in BOOLEAN : SetDynamicVolumeEnabled(enabled)

SpecDyn == InitDyn /\ [][NextDyn]_vars

\* The polling loop on the long script, dynamic volume enabled, while the
\* user changes the velocity timeframe.
InitTf ==
    \E tf \in InitTimeframes :
        Constructed([DefaultParams EXCEPT !.alpha = AxisLong],
                    [DefaultSettings EXCEPT !.velocity_timeframe = tf])

NextTf ==
    \/ \E d \in PollSteps : GeneratePacket(clock + d)
    \/ \E tf \in InitTimeframes : SetVelocityTimeframe(tf)

SpecTf == InitTf /\ [][NextTf]_vars

\* What a query at `time` would emit and leave: the packet with everything
\* get_pulses_at_time computes, and the next_update_time of generate_packet.
QueryAnswer(time) ==
    LET q == PulsesAtTime(time)
    IN [query |-> q, next_update_time |-> NextUpdateTime(time, q.pulses)]

\* Between queries the rest of the application writes the external and the
\* inactivity volume axis, or puts another axis object (with or without
\* add) behind volume.external.  The record keeps what the next queries
\* would have answered before the change.
ExternalChange(axis) ==
    /\ ~hung
    /\ axis # [has_add |-> params.volume.external_has_add,
               external |-> params.volume.external,
               inactivity |-> params.volume.inactivity]
    /\ params' = [params EXCEPT !.volume.external_has_add = axis.has_add,
                                !.volume.external = axis.external,
                                !.volume.inactivity = axis.inactivity]
    /\ ret' = [op |-> "external",
               answers_before |-> [d \in PollSteps |-> QueryAnswer(clock + d)]]
    /\ UNCHANGED <<settings, profileVars, calVars, fadeVars, trackVars, dynVars, outVars,
                   hung, clock, calls, run>>

\* The external axes: with and without add, at full, half and zero volume.
ExternalAxes ==
    { [has_add |-> TRUE, external |-> Scale, inactivity |-> Scale],
      [has_add |-> FALSE, external |-> Scale, inactivity |-> Scale],
      [has_add |-> TRUE, external |-> 0, inactivity |-> Scale \div 2],
      [has_add |-> FALSE, external |-> Scale \div 2, inactivity |-> 0] }

\* The polling loop while the external volume axis changes.
InitExt ==
    \E axis \in ExternalAxes :
        Constructed([DefaultParams EXCEPT !.volume.external_has_add = axis.has_add,
                                          !.volume.external = axis.external,
                                          !.volume.inactivity = axis.inactivity],
                    [DefaultSettings EXCEPT !.velocity_timeframe = 1 * MsPerS])

NextExt ==
    \/ \E d \in PollSteps : GeneratePacket(clock + d)
    \/ \E axis \in ExternalAxes : ExternalChange(axis)

SpecExt == InitExt /\ [][NextExt]_vars

(***************************************************************************)
(* The scan of _recalibrate_velocity_range, one iteration of its while     *)
(* loop per step.  ret holds the locals of the call while it is running.   *)
(***************************************************************************)
\* _check_recalibration_needed finds the timeframe changed and
\* _recalibrate_velocity_range runs up to its while loop (lines 152-172);
\* on a single-point profile it returns at once.
ScanStart ==
    LET timeframe == settings.velocity_timeframe
        calibration_window == CalibrationWindow(position_data, timeframe)
    IN /\ ~hung
       /\ ret.op # "scan"
       /\ RecalibrationNeeded(last_calibration_timeframe, timeframe) = TRUE
       /\ last_calibration_timeframe' = Some(timeframe)
       /\ IF Len(velocity_data) < 2
          THEN /\ calibrated_max_speed' = MinMaxSpeed
               /\ ret' = [op |-> "recalibrated", timeframe |-> timeframe, visited |-> 0]
          ELSE /\ calibrated_max_speed' = calibrated_max_speed
               /\ ret' = [op |-> "scan", timeframe |-> timeframe,
                          calibration_window |-> calibration_window,
                          step_size |-> calibration_window \div 2,
                          current_time |-> position_data[1][1],
                          window_averages |-> <<>>,
                          visited |-> 0]
       /\ UNCHANGED <<settings, params, profileVars, calibrated_max_magnitude,
                      calibrated_max_stroke_rate, fadeVars, trackVars, dynVars, outVars,
                      hung, clock, calls, run>>

\* One iteration of `while current_time <= times[-1]` (lines 173-187).
ScanStep ==
    LET window_start == ret.current_time - ret.calibration_window \div 2
        window_end == ret.current_time + ret.calibration_window \div 2
        velocities_in_window == VelocitiesInWindow(velocity_data, window_start, window_end)
    IN /\ ret.op = "scan"
       /\ ret.current_time <= position_data[Len(position_data)][1]
       /\ ret' = [ret EXCEPT !.window_averages =
                                 IF velocities_in_window # <<>>
                                 THEN Append(@, Mean(velocities_in_window)) ELSE @,
                             !.current_time = @ + ret.step_size,
                             !.visited = @ + 1]
       /\ UNCHANGED <<settings, params, profileVars, calVars, fadeVars, trackVars, dynVars,
                      outVars, hung, clock, calls, run>>

\* The loop condition fails and the percentile is taken (lines 189-194).
ScanEnd ==
    /\ ret.op = "scan"
    /\ ret.current_time > position_data[Len(position_data)][1]
    /\ calibrated_max_speed' =
           IF ret.window_averages # <<>>
           THEN Max2(Percentile(ret.window_averages, 95), MinMaxSpeed)
           ELSE MinMaxSpeed
    /\ ret' = [op |-> "recalibrated", timeframe |-> ret.timeframe,
               step_size |-> ret.step_size, visited |-> ret.visited]
    /\ UNCHANGED <<settings, params, profileVars, calibrated_max_magnitude,
                   calibrated_max_stroke_rate, last_calibration_timeframe, fadeVars,
                   trackVars, dynVars, outVars, hung, clock, calls, run>>

\* The positive timeframes the scan runs under: below, at and above a
\* quarter of the scripts' time spans.
ScanTimeframes == {MsPerS \div 2, 1 * MsPerS, 2 * MsPerS, 60 * MsPerS}

InitScan ==
    \E axis \in {AxisSingle, AxisStroke, AxisLong}, tf \in InitTimeframes :
        Constructed([DefaultParams EXCEPT !.alpha = axis],
                    [DefaultSettings EXCEPT !.velocity_timeframe = tf])

NextScan ==
    \/ ScanStart
    \/ ScanStep
    \/ ScanEnd
    \/ ret.op # "scan" /\ \E tf \in ScanTimeframes : SetVelocityTimeframe(tf)

\* The loop runs on the thread of the query: an iteration that can run does.
SpecScan == InitScan /\ [][NextScan]_vars /\ WF_vars(ScanStep) /\ WF_vars(ScanEnd)

(***************************************************************************)
(* Direct calls of the dynamic-volume estimator.                           *)
(***************************************************************************)
\* _calculate_dynamic_volume(current_velocity, current_time)
DynamicVolumeCall(current_velocity, current_time) ==
    LET history == PrunedVelocityHistory(dynamic_velocity_history, current_velocity,
                                         current_time, settings.dynamic_window_size)
        changes == PrunedDirectionChanges(direction_change_times, last_velocity_sign,
                                          current_velocity, current_time,
                                          settings.dynamic_window_size)
        intensity == IntensityMetric(history, changes, current_velocity,
                                     calibrated_max_speed, calibrated_max_stroke_rate,
                                     settings)
    IN /\ ~hung
       /\ calls < MaxCalls
       /\ current_time >= 0
       /\ dynamic_velocity_history' = history
       /\ direction_change_times' = changes
       /\ last_velocity_sign' = NextVelocitySign(last_velocity_sign, current_velocity)
       /\ clock' = current_time
       /\ calls' = calls + 1
       /\ ret' = [op |-> "dynamic", velocity |-> current_velocity, time |-> current_time,
                  sign_before |-> last_velocity_sign,
                  changes_before |-> Len(direction_change_times),
                  intensity |-> intensity,
                  sensitivity |-> settings.dynamic_sensitivity,
                  base_volume |-> settings.base_volume,
                  mix_ratio |-> settings.dynamic_mix_ratio,
                  window_size |-> settings.dynamic_window_size,
                  value |-> DynamicVolume(intensity, settings)]
       /\ UNCHANGED <<settings, params, profileVars, calVars, fadeVars, trackVars,
                      current_dynamic_volume, outVars, hung, run>>

\* The user moves the sensitivity slider.
SetDynamicSensitivity(sensitivity) ==
    /\ ~hung
    /\ sensitivity # settings.dynamic_sensitivity
    /\ settings' = [settings EXCEPT !.dynamic_sensitivity = sensitivity]
    /\ ret' = [op |-> "configure"]
    /\ UNCHANGED <<params, profileVars, calVars, fadeVars, trackVars, dynVars, outVars,
                   hung, clock, calls, run>>

\* The inputs of the direct calls and the tuning of the estimator.
DynVelocities == {-2 * Scale, -MovementThreshold, 0, MovementThreshold + 1, Scale \div 2}
DynTimeSteps == {0, (3 * MsPerS) \div 2}
Sensitivities == {0, Scale \div 2, Scale}
BaseVolumes == {0, Scale \div 5}
MixRatios == {0, Scale \div 2, Scale}

InitVol ==
    \E sensitivity \in Sensitivities, base_volume \in BaseVolumes, mix_ratio \in MixRatios :
        Constructed(DefaultParams,
                    [DefaultSettings EXCEPT !.dynamic_sensitivity = sensitivity,
                                            !.base_volume = base_volume,
                                            !.dynamic_mix_ratio = mix_ratio])

NextVol ==
    \/ \E v \in DynVelocities, d \in DynTimeSteps : DynamicVolumeCall(v, clock + d)
    \/ \E sensitivity \in Sensitivities : SetDynamicSensitivity(sensitivity)

SpecVol == InitVol /\ [][NextVol]_vars

\* The user moves the window-size spin box.
SetDynamicWindowSize(window_size) ==
    /\ ~hung
    /\ window_size # settings.dynamic_window_size
    /\ settings' = [settings EXCEPT !.dynamic_window_size = window_size]
    /\ ret' = [op |-> "configure"]
    /\ UNCHANGED <<params, profileVars, calVars, fadeVars, trackVars, dynVars, outVars,
                   hung, clock, calls, run>>

\* The windows: none, shorter and longer than the time steps, and a negative
\* value of the settings store; the time steps between two calls, the longest
\* one a pause of the estimator (dynamic volume disabled in between).
WindowSizes == {-1 * MsPerS, 0, 1 * MsPerS, 2 * MsPerS}
WindowTimeSteps == {0, (3 * MsPerS) \div 2, 5 * MsPerS}
WindowVelocities == {-2 * Scale, 0, Scale \div 2}

\* The estimator under a window that changes between calls.
InitWin ==
    \E window_size \in WindowSizes :
        Constructed(DefaultParams,
                    [DefaultSettings EXCEPT !.dynamic_window_size = window_size])

NextWin ==
    \/ \E v \in WindowVelocities, d \in WindowTimeSteps : DynamicVolumeCall(v, clock + d)
    \/ \E window_size \in WindowSizes : SetDynamicWindowSize(window_size)

SpecWin == InitWin /\ [][NextWin]_vars

(***************************************************************************)
(* Properties of the amplitude shaper.                                     *)
(***************************************************************************)
\* C3: fade_level stays within [0, 1] after any sequence of amplitude
\* queries, whatever the query times (also repeated or decreasing), the
\* velocities and the fade durations >= 0, which may change between queries.
C3_FadeLevelInRange == 0 <= fade_level /\ fade_level <= FadeDen

\* C3 witness: a query at a time before the previous one, made at a partial
\* fade level, has been answered.
C3_Witness ==
    /\ ret.op = "amplitude"
    /\ ret.time_delta < 0
    /\ 0 < ret.old_level /\ ret.old_level < FadeDen

\* The fade level C4 states for a query: min(1, old + dt / fade_in_time) when
\* moving, max(0, old - dt / fade_out_time) otherwise.
C4_StatedLevel(r) ==
    IF IsMoving(r.velocity)
    THEN Min2(FadeDen, r.old_level + (r.time_delta * FadeDen) \div r.fade_in_time)
    ELSE Max2(0, r.old_level - (r.time_delta * FadeDen) \div r.fade_out_time)

\* C4: for every amplitude query with fade_in_time > 0 and fade_out_time > 0
\* the new fade_level is min(1, old + dt / fade_in_time) when |v| > 0.01 and
\* max(0, old - dt / fade_out_time) otherwise, dt being the time since the
\* previous query and 0 on the first; so a query with dt = 0 leaves
\* fade_level unchanged.
C4_BoundedRate ==
    (ret.op = "amplitude" /\ ret.fade_in_time > 0 /\ ret.fade_out_time > 0)
        => fade_level = C4_StatedLevel(ret)

\* C5: under a constant configuration and strictly increasing query times,
\* if every query over a span of at least fade_out_time is classified as not
\* moving then fade_level is 0 at the end of the span, and if every query
\* over a span of at least fade_in_time is classified as moving then
\* fade_level is 1 at the end of the span.
C5_SustainedFade ==
    /\ (run.kind = "still" /\ last_fade_time[1] - run.start >= settings.fade_out_time)
           => fade_level = 0
    /\ (run.kind = "moving" /\ last_fade_time[1] - run.start >= settings.fade_in_time)
           => fade_level = FadeDen

\* C5 witness: a run of not-moving queries as long as a positive
\* fade_out_time, whose last query took a positive level down to 0.
C5_Witness ==
    /\ run.kind = "still"
    /\ settings.fade_out_time > 0
    /\ last_fade_time[1] - run.start >= settings.fade_out_time
    /\ ret.op = "amplitude"
    /\ ret.old_level > 0
    /\ fade_level = 0

\* The amplitude (0.6 + 0.3 * |p - 0.5| * 2) * level, clamped to [0, 1].
C7_Formula(normalized_pos, level) ==
    clamp((((6 * Scale) \div 10 + (3 * (Abs(normalized_pos - Scale \div 2) * 2)) \div 10)
              * level) \div FadeDen, 0, Scale)

C6_Tolerance(amplitude) == 4 * amplitude * (amplitude \div Scale + 1) + 2

\* C6: _apply_positional_effect returns (amplitude * sqrt(1 - p),
\* amplitude * sqrt(p)), so that amp_a^2 + amp_b^2 = amplitude^2 (to within
\* the arithmetic's tolerance); p = 0 gives (amplitude, 0), p = 1 gives
\* (0, amplitude), p = 0.5 gives amp_a = amp_b.
C6_PositionalSplit ==
    ret.op = "positional" =>
        LET a == ret.value[1]
            b == ret.value[2]
        IN /\ a = (ret.amplitude * Sqrt(Scale - ret.position)) \div Scale
           /\ b = (ret.amplitude * Sqrt(ret.position)) \div Scale
           /\ Abs(a * a + b * b - ret.amplitude * ret.amplitude)
                  <= C6_Tolerance(ret.amplitude)
           /\ (ret.position = 0 => a = ret.amplitude /\ b = 0)
           /\ (ret.position = Scale => a = 0 /\ b = ret.amplitude)
           /\ (ret.position = Scale \div 2 => a = b)

\* C6 witness: a full amplitude split at the center, equal and non-zero.
C6_Witness ==
    /\ ret.op = "positional"
    /\ ret.amplitude = Scale
    /\ ret.position = Scale \div 2
    /\ ret.value[1] = ret.value[2]
    /\ ret.value[1] > 0

(***************************************************************************)
(* Properties of the frequency shaper.                                     *)
(***************************************************************************)
\* C2: for every selector, position in [0, 1], time, velocity factor in
\* [0, 1] and channel with min_freq <= max_freq, the frequency
\* _calculate_enhanced_frequency returns lies in [min_freq, max_freq].
C2_FrequencyInBounds ==
    (ret.op = "frequency" /\ ret.min_freq <= ret.max_freq)
        => (ret.min_freq <= ret.value /\ ret.value <= ret.max_freq)

\* C2 witness: a call whose modulated frequency lay above max_freq, so that
\* the final clamp acted.
C2_Witness ==
    /\ ret.op = "frequency"
    /\ ret.min_freq < ret.max_freq
    /\ ret.modulated > ret.max_freq
    /\ ret.value = ret.max_freq

\* The selectors that name the Position algorithm.
PositionSelectors == {AlgoPosition, AlgoTestPosition}

\* C8: with the Position algorithm and velocity factor 0 the frequency is
\* min_freq + p * (max_freq - min_freq): min_freq at p = 0, max_freq at
\* p = 1, and non-decreasing in p at a fixed time.
C8_PositionFrequency ==
    (ret.op = "frequency" /\ ret.algorithm \in PositionSelectors /\ ret.velocity_factor = 0)
        => /\ ret.value = ret.min_freq
                            + (ret.position * (ret.max_freq - ret.min_freq)) \div Scale
           /\ (ret.position = 0 => ret.value = ret.min_freq)
           /\ (ret.position = Scale => ret.value = ret.max_freq)
           /\ \A q \in FreqPositions :
                  q >= ret.position =>
                      EnhancedFrequency(q, ret.time, ret.min_freq, ret.max_freq,
                          [settings EXCEPT !.frequency_algorithm = ret.algorithm,
                                           !.frequency_velocity_factor = 0],
                          velocity_data, params.mapper, ret.max_speed) >= ret.value

\* C8 witness: the Position algorithm at p = 1 with velocity factor 0, on a
\* channel with min_freq < max_freq.
C8_Witness ==
    /\ ret.op = "frequency"
    /\ ret.algorithm = AlgoPosition
    /\ ret.velocity_factor = 0
    /\ ret.position = Scale
    /\ ret.min_freq < ret.max_freq
    /\ ret.value = ret.max_freq

(***************************************************************************)
(* Properties of the calibration.                                          *)
(***************************************************************************)
\* C9: in every reachable state, whatever the script (also an empty, a
\* single-point or a flat one) and after any number of recalibrations,
\* calibrated_max_speed >= 0.5, calibrated_max_magnitude >= 5.0 and
\* calibrated_max_stroke_rate >= 1.0.
C9_CalibrationFloors ==
    /\ calibrated_max_speed >= Scale \div 2
    /\ calibrated_max_magnitude >= 5 * Scale
    /\ calibrated_max_stroke_rate >= Scale

\* C9 witness: a flat script has been recalibrated by a query, and its
\* constants sit on the floors.
C9_Witness ==
    /\ ret.op = "window"
    /\ ret.window.recalibrated
    /\ params.alpha = AxisFlat
    /\ calibrated_max_speed = Scale \div 2
    /\ calibrated_max_magnitude = 5 * Scale

\* The time span of the profile.
C10_TimeSpan == position_data[Len(position_data)][1] - position_data[1][1]

C1_ChannelOk(channel) ==
    /\ Len(channel) = 4
    /\ \A i \in 1..Len(channel) :
           /\ channel[i] = channel[1]
           /\ 0 <= channel[i].intensity /\ channel[i].intensity <= 100
           /\ MIN_PULSE_DURATION_MS <= channel[i].duration
           /\ channel[i].duration <= MAX_PULSE_DURATION_MS
           /\ HARDWARE_MIN_FREQ_HZ <= channel[i].frequency
           /\ channel[i].frequency <= HARDWARE_MAX_FREQ_HZ

\* C1: after any sequence of queries under any configuration, every packet
\* get_pulses_at_time / generate_packet returns has exactly 4 pulses on
\* channel A and 4 on channel B, the 4 pulses of a channel are identical, and
\* every pulse has an intensity in 0..100, a duration within the hardware
\* pulse durations and a frequency within the hardware frequencies.
C1_PacketShape ==
    ret.op = "packet" => C1_ChannelOk(ret.pulses.channel_a) /\ C1_ChannelOk(ret.pulses.channel_b)

\* C1 witness: a packet, after an earlier query, whose channel-A frequency lay
\* above the hardware range and whose intensity lay above 100 before the
\* clamps of the assembler.
C1_Witness ==
    /\ ret.op = "packet"
    /\ calls >= 2
    /\ ret.freq_a > HARDWARE_MAX_FREQ_HZ * Scale
    /\ ret.intensity_b > 100
    /\ ret.pulses.channel_a[1].frequency = HARDWARE_MAX_FREQ_HZ
    /\ ret.pulses.channel_b[1].intensity = 100

(***************************************************************************)
(* Properties of the dynamic volume.                                       *)
(***************************************************************************)
\* C11: whenever dynamic volume is disabled at the time of a query,
\* current_dynamic_volume is exactly 1.0 after the query, whatever history
\* was accumulated before (also right after switching it off).
C11_DisabledIsFull ==
    (ret.op = "packet" /\ ~ret.dynamic_enabled) => current_dynamic_volume = Scale

\* C11 witness: a query with dynamic volume disabled, after queries that
\* accumulated a history and left the volume below 1.0.
C11_Witness ==
    /\ ret.op = "packet"
    /\ ~ret.dynamic_enabled
    /\ ret.dynamic_before < Scale
    /\ dynamic_velocity_history # <<>>
    /\ current_dynamic_volume = Scale

\* C12: for sensitivity, base_volume and mix ratio in [0, 1] and any
\* history, _calculate_dynamic_volume returns
\* 1 - sensitivity * (1 - (base_volume + (1 - base_volume) * intensity)) with
\* intensity in [0, 1], so the result lies in
\* [1 - sensitivity * (1 - base_volume), 1]; sensitivity 0 gives 1.0, and
\* sensitivity 1 with base_volume 0.2 and intensity 0 gives 0.2.
C12_DynamicVolumeFormula ==
    ret.op = "dynamic" =>
        /\ 0 <= ret.intensity /\ ret.intensity <= Scale
        /\ ret.value = Scale - (ret.sensitivity
                                  * (Scale - (ret.base_volume
                                                + ((Scale - ret.base_volume) * ret.intensity)
                                                      \div Scale))) \div Scale
        /\ Scale - (ret.sensitivity * (Scale - ret.base_volume)) \div Scale <= ret.value
        /\ ret.value <= Scale
        /\ (ret.sensitivity = 0 => ret.value = Scale)
        /\ (ret.sensitivity = Scale /\ ret.base_volume = Scale \div 5 /\ ret.intensity = 0)
               => ret.value = Scale \div 5

\* C12 witness: sensitivity 1 and base_volume 0.2 at a partial intensity,
\* after earlier calls, give a volume strictly between 0.2 and 1.0.
C12_Witness ==
    /\ ret.op = "dynamic"
    /\ calls >= 2
    /\ ret.sensitivity = Scale
    /\ ret.base_volume = Scale \div 5
    /\ 0 < ret.intensity /\ ret.intensity < Scale
    /\ Scale \div 5 < ret.value /\ ret.value < Scale

(***************************************************************************)
(* Properties of the scheduling.                                           *)
(***************************************************************************)
\* The packet duration of a channel: the sum of its pulse durations, in ms.
C13_Duration(channel) == SumSeq([i \in 1..Len(channel) |-> channel[i].duration])

\* The duration C13 schedules by: the smaller of the two channel durations
\* when positive, otherwise the larger, and never less than 1 ms.
C13_Interval(pulses) ==
    LET a == C13_Duration(pulses.channel_a)
        b == C13_Duration(pulses.channel_b)
        smaller == IF a <= b THEN a ELSE b
        larger == IF a <= b THEN b ELSE a
        d == IF smaller > 0 THEN smaller ELSE larger
    IN IF d < 1 THEN 1 ELSE d

\* C13: after every generate_packet(current_time), next_update_time is
\* current_time + 0.65 * d / 1000 with d the smaller positive channel
\* duration (else the larger, at least 1 ms), hence strictly greater than
\* current_time.
C13_NextUpdateLater ==
    (ret.op = "packet" /\ ret.scheduled) =>
        /\ next_update_time # None
        /\ next_update_time[1] = ret.time * 1000 + 650 * C13_Interval(ret.pulses)
        /\ next_update_time[1] > ret.time * 1000

\* C13 witness: a scheduled packet, not the first, whose channels last
\* differently, so that the shorter one sets the interval.
C13_Witness ==
    /\ ret.op = "packet"
    /\ ret.scheduled
    /\ calls >= 2
    /\ C13_Duration(ret.pulses.channel_a) # C13_Duration(ret.pulses.channel_b)
    /\ next_update_time # None
    /\ next_update_time[1] > ret.time * 1000

(***************************************************************************)
(* Properties of the time mapping.                                         *)
(***************************************************************************)
\* The media time C14 states for a query at `time`.
C14_MediaTime(mapper, time) ==
    CASE mapper.kind = "offset" /\ time + mapper.arg >= 0 -> time + mapper.arg
      [] mapper.kind = "paused" /\ mapper.arg >= 0 -> mapper.arg
      [] OTHER -> time

\* C14: the position lookup and the window-average query use the mapper's
\* result when it is not None and >= 0, and the raw query time when there is
\* no mapper or the mapper returns None, returns a negative value or raises;
\* the query returns all the same.
C14_MapperFallback ==
    /\ ret.op \in {"packet", "window"} => ret.video_time = C14_MediaTime(params.mapper, ret.time)
    /\ ret.op = "packet" =>
           /\ prev_position = Some(Interp(C14_MediaTime(params.mapper, ret.time), position_data))
           /\ ret.vel = Interp(C14_MediaTime(params.mapper, ret.time), velocity_data)
    /\ ret.op = "window" =>
           ret.value = AverageVelocityInWindow(velocity_data,
                           C14_MediaTime(params.mapper, ret.time), settings.velocity_timeframe)

\* C14 witness: a position lookup answered at the raw time because the
\* mapper returned a negative time, at a time whose mapped value differs.
C14_Witness ==
    /\ ret.op = "packet"
    /\ params.mapper.kind = "offset"
    /\ ret.time + params.mapper.arg < 0
    /\ ret.time > 0
    /\ ret.video_time = ret.time

\* C14 witness of the failing mapper: a window-average query answered at the
\* raw time although the mapper raised.
C14_WitnessRaises ==
    /\ ret.op = "window"
    /\ params.mapper.kind = "raises"
    /\ calls >= 1
    /\ ret.video_time = ret.time

(***************************************************************************)
(* Properties of the profile.                                              *)
(***************************************************************************)
\* The three sequences have n entries each and carry the script's time axis
\* in order, the positions being the script's.
C15_SharesTimeAxis(axis) ==
    LET n == Len(axis.x)
    IN /\ Len(position_data) = n /\ Len(velocity_data) = n /\ Len(acceleration_data) = n
       /\ \A i \in 1..n :
              /\ position_data[i] = <<axis.x[i], axis.y[i]>>
              /\ velocity_data[i][1] = axis.x[i]
              /\ acceleration_data[i][1] = axis.x[i]

\* C15: a script of n >= 2 samples yields position, velocity and
\* acceleration sequences of exactly n entries on the script's time axis;
\* fewer than 2 samples, or an axis without a timeline, yield the single
\* point position (0.0, 0.5), velocity (0.0, 0.0), acceleration (0.0, 0.0).
C15_ProfileShape ==
    IF params.alpha.timeline /\ Len(params.alpha.x) >= 2
    THEN C15_SharesTimeAxis(params.alpha)
    ELSE /\ position_data = << <<0, Scale \div 2>> >>
         /\ velocity_data = << <<0, 0>> >>
         /\ acceleration_data = << <<0, 0>> >>

\* C15 witness: the profile of the seven-sample script, with velocities on
\* its time axis, still in place after a query.
C15_Witness ==
    /\ params.alpha = AxisLong
    /\ Len(velocity_data) = 7
    /\ velocity_data[7][1] = AxisLong.x[7]
    /\ velocity_data[1][2] # 0
    /\ ret.op = "window"

\* C15 witness of the degenerate case: a one-sample script built into the
\* single-point profile.
C15_WitnessSingle ==
    /\ params.alpha = AxisSingle
    /\ position_data = << <<0, Scale \div 2>> >>

\* C16: has_funscript_data() is true if and only if the profile holds more
\* than one point (position and velocity sequences both longer than 1); it
\* is false for the single-point profile and when no profile has been built.
C16_HasData ==
    ret.op = "has_data" =>
        /\ ret.value <=> (ret.built /\ Len(position_data) > 1 /\ Len(velocity_data) > 1)
        /\ (position_data = DefaultPositionData => ~ret.value)
        /\ (~ret.built => ~ret.value)

\* C16 witness: has_funscript_data() answered false on the single-point
\* profile of a one-sample script.
C16_Witness ==
    /\ ret.op = "has_data"
    /\ ret.built
    /\ params.alpha = AxisSingle
    /\ Len(position_data) = 1
    /\ ~ret.value

\* C16 witness of the loaded case: true on the five-sample script.
C16_WitnessLoaded ==
    /\ ret.op = "has_data"
    /\ params.alpha = AxisStroke
    /\ ret.value

(***************************************************************************)
(* Properties of the degenerate profile.                                   *)
(***************************************************************************)
\* Every pulse of the channel has intensity 0.
C17_Silent(channel) == \A i \in 1..Len(channel) : channel[i].intensity = 0

\* C17: with the single-point profile loaded, every query at every time and
\* under every configuration returns a packet whose pulses all have
\* intensity 0 on both channels, and fade_level never leaves 0.
C17_DegenerateSilent ==
    Len(position_data) = 1 =>
        /\ fade_level = 0
        /\ ~hung
        /\ ret.op # "hung"
        /\ ret.op = "packet" =>
               C17_Silent(ret.pulses.channel_a) /\ C17_Silent(ret.pulses.channel_b)

\* C17 witness: a later query on the single-point profile, at a volume above
\* 0 and after the clock advanced, answered with intensity 0.
C17_Witness ==
    /\ Len(position_data) = 1
    /\ ret.op = "packet"
    /\ calls >= 2
    /\ ret.time > 0
    /\ ret.volume_at_time > 0
    /\ ret.pulses.channel_a[1].intensity = 0
    /\ ret.pulses.channel_b[1].intensity = 0

\* The midpoint (min_freq + max_freq) / 2 of a channel.
C18_Midpoint(channel) == (channel.minimum_frequency + channel.maximum_frequency) \div 2

\* C18: with the single-point profile loaded, every query returns for each
\* channel the midpoint frequency (min_freq + max_freq) / 2 of that channel,
\* before integer truncation and hardware clamping, for every frequency
\* algorithm and velocity factor.
C18_DegenerateMidpoint ==
    (Len(position_data) = 1 /\ ret.op = "packet") =>
        /\ ret.freq_a = C18_Midpoint(params.channel_a)
        /\ ret.freq_b = C18_Midpoint(params.channel_b)

(***************************************************************************)
(* Properties of the guards against non-positive configuration values.     *)
(***************************************************************************)
\* C19: a query returns a packet for every configuration value, including a
\* zero or negative velocity timeframe, dynamic-volume window, fade-in time
\* or fade-out time: no query is left inside a loop that never ends.
C19_EveryQueryReturns == ~hung /\ ret.op # "hung"

(***************************************************************************)
(* Properties of the stroke counters.                                      *)
(***************************************************************************)
\* The sign of a sample: +1 above 0.01, -1 below -0.01, neutral otherwise.
C20_Sign(v) == IF v > Scale \div 100 THEN 1 ELSE IF v < -(Scale \div 100) THEN -1 ELSE 0

\* Every sample fed so far is still in the window.
C20_NothingPruned == Len(dynamic_velocity_history) = calls

\* C20: the run-time stroke detector and the calibration-time stroke counter
\* are the same classifier: fed one sample per call from last_velocity_sign
\* 0, with nothing pruned, _calculate_dynamic_volume records as many
\* direction changes as _precompute_amplitude_range counts over the same
\* sequence; a neutral sample neither counts as a flip nor updates the
\* remembered sign.
C20_SameStrokeCount ==
    C20_NothingPruned =>
        /\ Len(direction_change_times)
               = DirectionChanges(Seconds(dynamic_velocity_history), 0)
        /\ ret.op = "dynamic" =>
               /\ Len(direction_change_times) - ret.changes_before
                      = IF /\ C20_Sign(ret.velocity) # 0
                           /\ ret.sign_before # 0
                           /\ C20_Sign(ret.velocity) # ret.sign_before
                        THEN 1 ELSE 0
               /\ last_velocity_sign = IF C20_Sign(ret.velocity) # 0
                                       THEN C20_Sign(ret.velocity) ELSE ret.sign_before

\* C20 witness: the samples +, neutral, - have been fed, nothing was pruned,
\* and exactly one direction change is recorded.
C20_Witness ==
    /\ calls = 3
    /\ C20_NothingPruned
    /\ C20_Sign(dynamic_velocity_history[1][2]) = 1
    /\ C20_Sign(dynamic_velocity_history[2][2]) = 0
    /\ C20_Sign(dynamic_velocity_history[3][2]) = -1
    /\ Len(direction_change_times) = 1

(***************************************************************************)
(* Properties of the selector.                                             *)
(***************************************************************************)
\* The base frequency of the algorithm a selector string names.
C21_NamedFrequency(algorithm, position, time, min_freq, max_freq) ==
    IF algorithm = AlgoPosition THEN PositionFrequency(position, min_freq, max_freq)
    ELSE IF algorithm = AlgoVaried THEN VariedFrequency(position, time, min_freq, max_freq)
    ELSE IF algorithm = AlgoBlend THEN BlendFrequency(position, time, min_freq, max_freq)
    ELSE (min_freq + max_freq) \div 2

\* C21: for each selector the settings UI can store, and for an unknown or
\* empty selector, the base frequency (the returned frequency before the
\* clamp at velocity factor 0) is that of the algorithm the string names:
\* Position, Varied, Blend = the mean of Position and Varied, and the
\* midpoint for Fixed, unknown and empty.
C21_SelectorNamesAlgorithm ==
    (/\ ret.op = "frequency"
     /\ ret.velocity_factor = 0
     /\ ret.algorithm \in {AlgoPosition, AlgoVaried, AlgoBlend, AlgoFixed,
                           AlgoEmpty, AlgoUnknown})
        => ret.modulated = C21_NamedFrequency(ret.algorithm, ret.position, ret.time,
                                              ret.min_freq, ret.max_freq)

\* C21 without the Blend selector: the other selectors of the UI, and the
\* unknown and empty ones, give the algorithm they name.
C21_OtherSelectors ==
    (/\ ret.op = "frequency"
     /\ ret.velocity_factor = 0
     /\ ret.algorithm \in {AlgoPosition, AlgoVaried, AlgoFixed, AlgoEmpty, AlgoUnknown})
        => ret.modulated = C21_NamedFrequency(ret.algorithm, ret.position, ret.time,
                                              ret.min_freq, ret.max_freq)

\* The Blend selector of the UI gives the Varied frequency.
C21_BlendIsVaried ==
    (ret.op = "frequency" /\ ret.velocity_factor = 0 /\ ret.algorithm = AlgoBlend)
        => ret.modulated = VariedFrequency(ret.position, ret.time, ret.min_freq, ret.max_freq)

(***************************************************************************)
(* Properties of the window average.                                       *)
(***************************************************************************)
\* The samples of the velocity profile whose time t satisfies
\* media_time - timeframe / 2 <= t <= media_time + timeframe / 2.
C22_InRange(media_time, timeframe) ==
    {i \in 1..Len(velocity_data) :
        /\ 2 * media_time - timeframe <= 2 * velocity_data[i][1]
        /\ 2 * velocity_data[i][1] <= 2 * media_time + timeframe}

RECURSIVE C22_SumAbs(_)
\* The sum of |v| over a set of samples of the velocity profile.
C22_SumAbs(samples) ==
    IF samples = {} THEN 0
    ELSE LET i == CHOOSE j \in samples : TRUE
         IN Abs(velocity_data[i][2]) + C22_SumAbs(samples \ {i})

\* C22: _get_average_velocity_in_window returns the arithmetic mean of |v|
\* over exactly the profile samples within half a timeframe of the media
\* time, bounds included, and 0 when there is none; the result is >= 0.
C22_WindowAverage ==
    ret.op = "window" =>
        LET samples == C22_InRange(ret.video_time, ret.window.timeframe)
        IN /\ ret.value = IF samples = {} THEN 0
                          ELSE C22_SumAbs(samples) \div Cardinality(samples)
           /\ ret.value >= 0

\* C22 witness: a query whose media time is the mapped time, with samples
\* inside and outside the range, one of them on a bound, and a mean > 0.
C22_Witness ==
    /\ ret.op = "window"
    /\ ret.video_time # ret.time
    /\ C22_InRange(ret.video_time, ret.window.timeframe) # {}
    /\ C22_InRange(ret.video_time, ret.window.timeframe) # 1..Len(velocity_data)
    /\ \E i \in C22_InRange(ret.video_time, ret.window.timeframe) :
           /\ 2 * velocity_data[i][1] = 2 * ret.video_time + ret.window.timeframe
           /\ velocity_data[i][2] # 0
    /\ ret.value > 0

\* C22 witness of the fallback: on a script with movement, a query beyond
\* the end of the script finds no sample in range and returns 0.
C22_WitnessEmpty ==
    /\ ret.op = "window"
    /\ Len(velocity_data) > 1
    /\ C22_InRange(ret.video_time, ret.window.timeframe) = {}
    /\ ret.value = 0

(***************************************************************************)
(* Properties of the calibration over a run.                               *)
(***************************************************************************)
\* The step ends inside a query (one that returned, or one that is left in
\* the calibration scan).
C23_InQuery == ret'.op \in {"packet", "window", "frequency", "hung"}

\* C23: in every step, calibrated_max_magnitude and
\* calibrated_max_stroke_rate keep the value of the profile's construction,
\* and calibrated_max_speed and the cached timeframe change only inside a
\* query that starts with no cached timeframe or with a configured velocity
\* timeframe different from the cached one.
C23_CalibrationStable ==
    [][/\ calibrated_max_magnitude' = calibrated_max_magnitude
       /\ calibrated_max_stroke_rate' = calibrated_max_stroke_rate
       /\ (\/ calibrated_max_speed' # calibrated_max_speed
           \/ last_calibration_timeframe' # last_calibration_timeframe)
              => /\ C23_InQuery
                 /\ settings' = settings
                 /\ \/ last_calibration_timeframe = None
                    \/ settings.velocity_timeframe # last_calibration_timeframe[1]]_vars

\* C23 witness: a query that found the configured timeframe different from
\* the cached one has replaced calibrated_max_speed by another value, with
\* the other two constants those of the script.
C23_Witness ==
    /\ ret.op = "packet"
    /\ ret.window.recalibrated
    /\ ret.window.cached_before # None
    /\ ret.window.max_speed_before # calibrated_max_speed
    /\ last_calibration_timeframe = Some(settings.velocity_timeframe)
    /\ calibrated_max_magnitude
           = PrecomputeMotionData(params.alpha, settings.velocity_timeframe).calibrated_max_magnitude
    /\ calibrated_max_stroke_rate
           = PrecomputeMotionData(params.alpha, settings.velocity_timeframe).calibrated_max_stroke_rate

(***************************************************************************)
(* Properties of the calibration scan.                                     *)
(***************************************************************************)
\* The time span of the profile.
C24_TimeSpan == position_data[Len(position_data)][1] - position_data[1][1]

\* While the scan runs: the window is min(timeframe, timespan / 4) and
\* positive, the step is half a window, the current center is the first
\* sample time plus one step per visited center, and no more centers are
\* visited than fit between the first and the last sample time.  When it
\* has run: it visited exactly those centers and left the calibration of
\* the whole scan.
C24_ScanBounded ==
    /\ ret.op = "scan" =>
           /\ ret.timeframe > 0
           /\ ret.calibration_window = Min2(ret.timeframe, C24_TimeSpan \div 4)
           /\ ret.calibration_window > 0
           /\ ret.step_size > 0
           /\ 2 * ret.step_size = ret.calibration_window
           /\ ret.current_time = position_data[1][1] + ret.visited * ret.step_size
           /\ ret.visited <= C24_TimeSpan \div ret.step_size + 1
    /\ (ret.op = "recalibrated" /\ ret.visited > 0) =>
           /\ ret.visited = C24_TimeSpan \div ret.step_size + 1
           /\ calibrated_max_speed
                  = RecalibratedMaxSpeed(position_data, velocity_data, ret.timeframe)

\* C24: for every profile of at least 2 samples and every timeframe > 0 the
\* scan of _recalibrate_velocity_range terminates: its window is positive,
\* it advances by half a window per step from the first sample time, and
\* after finitely many centers it stops.
C24_ScanTerminates ==
    /\ []C24_ScanBounded
    /\ (ret.op = "scan") ~> (ret.op = "recalibrated")

\* C24 witness: a scan whose window is the timeframe (shorter than a quarter
\* of the span) has stopped after visiting all its centers.
C24_Witness ==
    /\ ret.op = "recalibrated"
    /\ Len(position_data) >= 2
    /\ 4 * ret.timeframe < C24_TimeSpan
    /\ ret.visited = (2 * C24_TimeSpan) \div ret.timeframe + 1
    /\ ret.visited > 9

\* C24 witness of the cap: a scan under a timeframe longer than a quarter of
\* the span has stopped after 9 centers.
C24_WitnessCapped ==
    /\ ret.op = "recalibrated"
    /\ Len(position_data) >= 2
    /\ 4 * ret.timeframe > C24_TimeSpan
    /\ ret.visited = 9

(***************************************************************************)
(* Properties of the rolling window.                                       *)
(***************************************************************************)
\* C25: after a _calculate_dynamic_volume call at time t under a window
\* w >= 0, every entry of the velocity history and every direction-change
\* timestamp has time >= t - w, and the history is not empty: its last
\* entry is the sample of this call.  This holds whatever the history was
\* before the call.
C25_WindowPruned ==
    (ret.op = "dynamic" /\ ret.window_size >= 0) =>
        /\ \A i \in 1..Len(dynamic_velocity_history) :
               dynamic_velocity_history[i][1] >= ret.time - ret.window_size
        /\ \A i \in 1..Len(direction_change_times) :
               direction_change_times[i] >= ret.time - ret.window_size
        /\ dynamic_velocity_history # <<>>
        /\ dynamic_velocity_history[Len(dynamic_velocity_history)]
               = <<ret.time, ret.velocity>>

\* C25 witness: the third call came after the window was reduced to 0 and
\* found two older samples and a direction change; only its own sample is
\* left.
C25_Witness ==
    /\ ret.op = "dynamic"
    /\ calls = 3
    /\ ret.window_size = 0
    /\ ret.changes_before = 1
    /\ ret.time > 0
    /\ dynamic_velocity_history = <<<<ret.time, ret.velocity>>>>
    /\ direction_change_times = <<>>

\* C25 witness of the pause: a call 5 s after the previous one, under a
\* window of 2 s, has dropped the older samples.
C25_WitnessPause ==
    /\ ret.op = "dynamic"
    /\ calls = 3
    /\ ret.window_size = 2 * MsPerS
    /\ ret.time >= 5 * MsPerS
    /\ Len(dynamic_velocity_history) = 1

(***************************************************************************)
(* Properties of the order of the shapers within a query.                  *)
(***************************************************************************)
\* clamp(int(channel_amplitude * api_volume * master_volume * dynamic_volume
\* * 100), 0, 100)
C26_Intensity(channel_amp, dynamic_volume) ==
    LET standard == (params.volume.api * params.volume.master) \div Scale
        total == (standard * dynamic_volume) \div Scale
    IN clamp(TruncDiv(channel_amp * total * 100, Scale * Scale), 0, 100)

\* The channel amplitudes of the packet: the positional split of the
\* amplitude at the fade level this query left.
C26_Amps == ApplyPositionalEffect(MotionAmplitude(ret.normalized_pos, fade_level),
                                  ret.normalized_pos)

\* C26: within one query the amplitude (with its fade update) comes first,
\* then the dynamic volume, then the frequencies, the total volume and the
\* packet: the dynamic volume is that of this query's history, normalized by
\* the calibration in force before the frequency shaper's recalibration
\* check (1.0 when disabled), and each channel's intensity is
\* clamp(int(amplitude * api * master * dynamic_volume * 100), 0, 100) with
\* the dynamic volume of this query.
C26_ShaperOrder ==
    ret.op = "packet" =>
        /\ ret.motion_amplitude = MotionAmplitude(ret.normalized_pos, fade_level)
        /\ current_dynamic_volume = ret.dynamic_volume
        /\ ret.dynamic_volume =
               IF ret.dynamic_enabled
               THEN DynamicVolume(IntensityMetric(dynamic_velocity_history,
                                                  direction_change_times, ret.vel,
                                                  ret.window.max_speed_before,
                                                  calibrated_max_stroke_rate, settings),
                                  settings)
               ELSE Scale
        /\ ret.pulses.channel_a[1].intensity = C26_Intensity(C26_Amps[1], ret.dynamic_volume)
        /\ ret.pulses.channel_b[1].intensity = C26_Intensity(C26_Amps[2], ret.dynamic_volume)

\* C26 witness: a query whose dynamic volume differs from the one the
\* previous query left, with a channel A intensity that the older value
\* would not have given.
C26_Witness ==
    /\ ret.op = "packet"
    /\ calls >= 2
    /\ ret.dynamic_enabled
    /\ ret.dynamic_before # ret.dynamic_volume
    /\ ret.pulses.channel_a[1].intensity > 0
    /\ ret.pulses.channel_a[1].intensity # C26_Intensity(C26_Amps[1], ret.dynamic_before)

\* C26 witness of the clamp: the product exceeds 100 and the intensity is 100.
C26_WitnessClamped ==
    /\ ret.op = "packet"
    /\ ret.intensity_a > 100
    /\ ret.pulses.channel_a[1].intensity = 100

(***************************************************************************)
(* Properties of the external volume axis.                                 *)
(***************************************************************************)
\* In a state that differs from the previous one only in the external (or
\* inactivity) axis, its contents or its support of add, every next query
\* emits the same packet and next_update_time and leaves the same engine
\* state as it would have before.
C27_SameAnswers ==
    ret.op = "external" =>
        \A d \in PollSteps : QueryAnswer(clock + d) = ret.answers_before[d]

\* A query appends its dynamic volume to the external axis iff the axis
\* supports add, and writes nothing else to it.
C27_Write ==
    (ret'.op = "packet" /\ calls' = calls + 1) =>
        external_volume' = IF params.volume.external_has_add
                           THEN Append(external_volume, current_dynamic_volume')
                           ELSE external_volume

C28_ReturnsIntensities ==
    ret.op = "positional_intensity" =>
        /\ ret.raised = None
        /\ \A k \in 1..2 : 0 <= ret.value[k] /\ ret.value[k] <= 100

\* Every call of _positional_intensity raises TypeError.
C28_AlwaysRaises ==
    ret.op = "positional_intensity" => ret.raised = Some("TypeError")

(***************************************************************************)
(* Properties of the calibration within one query.                         *)
(***************************************************************************)
\* C29: within every query the max_speed by which the dynamic-volume
\* estimator normalizes its trailing average is the max_speed by which the
\* frequency shaper normalizes its window average, also in the first query
\* after the configured velocity timeframe has changed.
C29_SameMaxSpeed ==
    (ret.op = "packet" /\ ret.dynamic_enabled) => ret.dynamic_max_speed = ret.max_speed

\* The two differ exactly in the queries that recalibrate to another value:
\* the estimator has then used the calibration of the previous timeframe.
C29_StaleOnRecalibration ==
    (ret.op = "packet" /\ ret.dynamic_enabled) =>
        /\ ret.dynamic_max_speed = ret.window.max_speed_before
        /\ ret.max_speed = calibrated_max_speed
        /\ ~ret.window.recalibrated => ret.dynamic_max_speed = ret.max_speed

\* The dynamic volume of the query is the one the estimator gives with the
\* calibration of the previous timeframe, and differs from the one it gives
\* with the calibration of the frequency shaper.
C29_StaleVolume ==
    /\ ret.op = "packet"
    /\ ret.dynamic_enabled
    /\ ret.window.recalibrated
    /\ ret.window.cached_before # None
    /\ ret.dynamic_volume
           # DynamicVolume(IntensityMetric(dynamic_velocity_history, direction_change_times,
                                           ret.vel, ret.max_speed,
                                           calibrated_max_stroke_rate, settings),
                           settings)

(***************************************************************************)
(* Movement detection from the played position.                            *)
(***************************************************************************)
\* A step that is a query which returned a packet.
C30_IsQuery == calls' = calls + 1 /\ ret'.op = "packet"

\* How a query obtains the velocity it classifies: the first query takes the
\* precomputed velocity; a query more than 1 ms after the previous one takes
\* the finite difference of the played positions, which is 0 and classifies
\* as not moving when the position did not change, whatever the precomputed
\* velocity at that media time.
C30_Classification ==
    C30_IsQuery =>
        LET time_delta == IF prev_position_time = None THEN 0
                          ELSE ret'.time - prev_position_time[1]
        IN /\ prev_position = None => realtime_velocity' = ret'.vel
           /\ (prev_position # None /\ time_delta > 1) =>
                  /\ realtime_velocity' * time_delta
                         <= (prev_position'[1] - prev_position[1]) * MsPerS + time_delta - 1
                  /\ realtime_velocity' * time_delta
                         >= (prev_position'[1] - prev_position[1]) * MsPerS - time_delta + 1
                  /\ prev_position'[1] = prev_position[1] =>
                         /\ realtime_velocity' = 0
                         /\ ~is_moving'
                         /\ run'.kind = "still"
           /\ is_moving' = (Abs(ret'.realtime_velocity) > MovementThreshold)
           /\ ret'.realtime_velocity = realtime_velocity'

\* Once the queries have classified the input as not moving over a span of
\* at least fade_out_time, counted from the query before the first of them
\* (the one that last saw the position change), the fade level is 0 and both
\* channels are silent.
C30_FadedOut ==
    (/\ ret.op = "packet"
     /\ run.kind = "still"
     /\ clock - run.since >= settings.fade_out_time)
        => /\ fade_level = 0
           /\ ret.motion_amplitude = 0
           /\ ret.intensity_a = 0 /\ ret.intensity_b = 0
           /\ \A i \in 1..Len(ret.pulses.channel_a) : ret.pulses.channel_a[i].intensity = 0
           /\ \A i \in 1..Len(ret.pulses.channel_b) : ret.pulses.channel_b[i].intensity = 0

\* C30: movement detection follows the played position, not the precomputed
\* velocity: over queries more than 1 ms apart an unchanged position
\* classifies as not moving, after a span of at least fade_out_time the fade
\* level is 0 and both channel intensities are 0 for as long as the position
\* stays unchanged, even where the precomputed velocity is non-zero; only
\* the first query classifies the precomputed velocity.
C30_FollowsPlayedPosition == []C30_FadedOut /\ [][C30_Classification]_vars

\* C30 witness: the media paused in the middle of a stroke, where the
\* precomputed velocity is well above the threshold; the fade-out is longer
\* than one polling step, and the query that completes it has silenced both
\* channels.
C30_Witness ==
    /\ ret.op = "packet"
    /\ params.mapper.kind = "paused"
    /\ IsMoving(ret.vel)
    /\ run.kind = "still"
    /\ run.start > run.since
    /\ settings.fade_out_time > 0
    /\ clock - run.since >= settings.fade_out_time
    /\ clock - run.start < settings.fade_out_time
    /\ fade_level = 0
    /\ ret.intensity_a = 0 /\ ret.intensity_b = 0

\* C30 witness: the same beyond the end of the script, where the position
\* lookup holds the last sample.
C30_WitnessBeyondEnd ==
    /\ ret.op = "packet"
    /\ params.mapper.kind = "offset"
    /\ ret.video_time > position_data[Len(position_data)][1]
    /\ run.kind = "still"
    /\ run.start > run.since
    /\ settings.fade_out_time > 0
    /\ clock - run.since >= settings.fade_out_time
    /\ fade_level = 0
    /\ ret.intensity_a = 0 /\ ret.intensity_b = 0

=============================================================================
